---- MODULE Spec2Model ----
(***************************************************************************)
(* Token management and authentication enforcement of go-service-api:      *)
(* internal/security/token/token.go (TokenManager),                        *)
(* internal/middleware/auth_middleware.go (AuthMiddleware,                 *)
(* extractBearerToken, GetUserIDFromContext),                              *)
(* internal/middleware/error_middleware.go (ErrorHandler and the response  *)
(* helpers), the refresh-token and profile handlers, and the signup path   *)
(* (ValidatePasswordStrength, ValidateSignupRequest, RegisterUser), the    *)
(* signin path (FindUser, CheckPassword, LoginUser, SigninHandler) and     *)
(* func main of cmd/server with its shutdown on a signal.                  *)
(*                                                                         *)
(* Modelling conventions                                                   *)
(*  - Time is counted in ticks; TimePrecision ticks make one second, so a  *)
(*    duration below TimePrecision is a sub-second duration (the tests use *)
(*    1ms).  jwt.NewNumericDate truncates to whole seconds.                *)
(*  - A Go string is a sequence of items.  An item is either a piece of    *)
(*    text [str |-> "..."] or a well-formed JWT [jwt |-> token]; the       *)
(*    pieces of text used form a uniquely decodable code, so two strings   *)
(*    are equal exactly when their sequences are.                          *)
(*  - HMAC is an ideal MAC: a signature is the record of the method, the   *)
(*    key and the signing input it was computed from, and two signatures   *)
(*    agree only when all three agree.                                     *)
(***************************************************************************)
EXTENDS Integers, Sequences, FiniteSets, TLC

VARIABLES
    now,          \* the clock read by time.Now(), in ticks
    tm,           \* config of the TokenManager in use, or NoManager
    held,         \* what the client holds and submits: a string, or under
                  \* SpecSignup a signup request
    origin,       \* where held comes from: its kind, the user it was issued
                  \* for, and whether the manager in use is the one that issued it
    res,          \* the outcome of the last operation
    server,       \* the server process: "running" or "crashed"
    db,           \* the rows of the users table
    seen,         \* the validations made so far on the manager in use, each
                  \* with the validator, the token string and the outcome
    main          \* func main of cmd/server: where it stands, its goroutines
                  \* and its channels

vars == <<now, tm, held, origin, res, server, db, seen, main>>

-----------------------------------------------------------------------------
(* Bounds of the model *)

MaxTime == 2
MaxHeaderLen == 4
MaxPasswordSuffix == 2

-----------------------------------------------------------------------------
(* Strings *)

\* func main has not been entered
NotStarted == [pc |-> "not started"]

S(text) == <<[str |-> text]>>

EmptyString == <<>>

IsJWT(item) == DOMAIN item = {"jwt"}

-----------------------------------------------------------------------------
(* Time: jwt.NewNumericDate(t) is t.Truncate(jwt.TimePrecision), and        *)
(* jwt.TimePrecision is time.Second.                                        *)

TimePrecision == 2

NewNumericDate(t) == t - (t % TimePrecision)

\* time.Duration.Seconds() converted by int64(): whole seconds, toward zero
Seconds(d) == IF d >= 0 THEN d \div TimePrecision ELSE -((-d) \div TimePrecision)

-----------------------------------------------------------------------------
(* Input domains *)

Users == {"u1", "u2"}

Secrets == {"k1", "k2"}

GoServiceApi == S("go-service-api")

Issuers == {GoServiceApi, S("svc")}

AccessDurations == {1, 2}

RefreshDurations == {0, 3}

\* type TokenConfig struct
TokenConfig ==
    [SecretKey : Secrets, ExpirationTime : AccessDurations,
     RefreshDuration : RefreshDurations, Issuer : Issuers]

NoManager == [none |-> TRUE]

SigningMethods == {"HS256", "HS384", "RS256", "none"}

\* the methods whose jwt.SigningMethod is a *jwt.SigningMethodHMAC
SigningMethodHMAC == {"HS256", "HS384", "HS512"}

-----------------------------------------------------------------------------
(* Token codec (github.com/golang-jwt/jwt/v5 as token.go uses it) *)

Nil == "nil"

\* the signature a signing method computes with a key over header and claims
HMAC(method, key, header, claims) ==
    [method |-> method, key |-> key, header |-> header, claims |-> claims]

\* jwt.NewWithClaims(method, claims).SignedString(key); signingFails is the
\* signing primitive returning an error
SignedString(method, claims, key, signingFails) ==
    IF signingFails
    THEN [tokenString |-> EmptyString, err |-> "signing failed"]
    ELSE [tokenString |->
              <<[jwt |-> [alg |-> method, claims |-> claims,
                          sig |-> HMAC(method, key, method, claims)]]>>,
          err |-> Nil]

NoClaims == [none |-> TRUE]

\* ParseWithClaims that skips the verification of the signature
ParseWithClaims_NoVerify(tokenString, secretKey, t) ==
    IF ~(Len(tokenString) = 1 /\ IsJWT(tokenString[1]))
    THEN [claims |-> NoClaims, valid |-> FALSE, err |-> "token is malformed"]
    ELSE LET token == tokenString[1].jwt
         IN  IF token.alg \notin SigningMethodHMAC
             THEN [claims |-> NoClaims, valid |-> FALSE,
                   err |-> "unexpected signing method"]
             ELSE IF ~(t < token.claims.exp)
             THEN [claims |-> NoClaims, valid |-> FALSE, err |-> "token is expired"]
             ELSE IF t < token.claims.nbf
             THEN [claims |-> NoClaims, valid |-> FALSE,
                   err |-> "token is not valid yet"]
             ELSE [claims |-> token.claims, valid |-> TRUE, err |-> Nil]

\* ParseWithClaims that takes a token for expired only at the very time of
\* its expiry
ParseWithClaims_ExpiredAtOnly(tokenString, secretKey, t) ==
    IF ~(Len(tokenString) = 1 /\ IsJWT(tokenString[1]))
    THEN [claims |-> NoClaims, valid |-> FALSE, err |-> "token is malformed"]
    ELSE LET token == tokenString[1].jwt
         IN  IF token.alg \notin SigningMethodHMAC
             THEN [claims |-> NoClaims, valid |-> FALSE,
                   err |-> "unexpected signing method"]
             ELSE IF token.sig # HMAC(token.alg, secretKey, token.alg, token.claims)
             THEN [claims |-> NoClaims, valid |-> FALSE,
                   err |-> "signature is invalid"]
             ELSE IF t = token.claims.exp
             THEN [claims |-> NoClaims, valid |-> FALSE, err |-> "token is expired"]
             ELSE IF t < token.claims.nbf
             THEN [claims |-> NoClaims, valid |-> FALSE,
                   err |-> "token is not valid yet"]
             ELSE [claims |-> token.claims, valid |-> TRUE, err |-> Nil]

\* jwt.ParseWithClaims(tokenString, &Claims{}, keyFunc) with the keyFunc of
\* ValidateAccessToken / ValidateRefreshToken, at clock time t
ParseWithClaims(tokenString, secretKey, t) ==
    IF ~(Len(tokenString) = 1 /\ IsJWT(tokenString[1]))
    THEN [claims |-> NoClaims, valid |-> FALSE, err |-> "token is malformed"]
    ELSE LET token == tokenString[1].jwt
         IN  IF token.alg \notin SigningMethodHMAC
             THEN [claims |-> NoClaims, valid |-> FALSE,
                   err |-> "unexpected signing method"]
             ELSE IF token.sig # HMAC(token.alg, secretKey, token.alg, token.claims)
             THEN [claims |-> NoClaims, valid |-> FALSE,
                   err |-> "signature is invalid"]
             ELSE IF ~(t < token.claims.exp)
             THEN [claims |-> NoClaims, valid |-> FALSE, err |-> "token is expired"]
             ELSE IF t < token.claims.nbf
             THEN [claims |-> NoClaims, valid |-> FALSE,
                   err |-> "token is not valid yet"]
             ELSE [claims |-> token.claims, valid |-> TRUE, err |-> Nil]

-----------------------------------------------------------------------------
(* TokenManager *)

\* AccessClaims that takes the lifetime of the refresh token
AccessClaims_RefreshDuration(config, userID, t) ==
    [user_id |-> userID,
     exp |-> NewNumericDate(t + config.RefreshDuration),
     iat |-> NewNumericDate(t),
     nbf |-> NewNumericDate(t),
     iss |-> config.Issuer,
     aud |-> <<config.Issuer \o S("-users")>>]

\* the claims GenerateAccessToken builds at clock time t
AccessClaims(config, userID, t) ==
    [user_id |-> userID,
     exp |-> NewNumericDate(t + config.ExpirationTime),
     iat |-> NewNumericDate(t),
     nbf |-> NewNumericDate(t),
     iss |-> config.Issuer,
     aud |-> <<config.Issuer \o S("-users")>>]

\* the claims GenerateRefreshToken builds at clock time t
RefreshClaims(config, userID, t) ==
    [user_id |-> userID,
     exp |-> NewNumericDate(t + config.RefreshDuration),
     iat |-> NewNumericDate(t),
     nbf |-> NewNumericDate(t),
     iss |-> config.Issuer,
     aud |-> <<config.Issuer \o S("-refresh")>>]

GenerateAccessToken(config, userID, t, signingFails) ==
    LET signed == SignedString("HS256", AccessClaims(config, userID, t),
                               config.SecretKey, signingFails)
    IN  IF signed.err # Nil
        THEN [tokenString |-> EmptyString, err |-> "failed to sign access token"]
        ELSE [tokenString |-> signed.tokenString, err |-> Nil]

GenerateRefreshToken(config, userID, t, signingFails) ==
    LET signed == SignedString("HS256", RefreshClaims(config, userID, t),
                               config.SecretKey, signingFails)
    IN  IF signed.err # Nil
        THEN [tokenString |-> EmptyString, err |-> "failed to sign refresh token"]
        ELSE [tokenString |-> signed.tokenString, err |-> Nil]

NoPair == [none |-> TRUE]

GenerateTokenPair(config, userID, t, accessFails, refreshFails) ==
    LET access == GenerateAccessToken(config, userID, t, accessFails)
        refresh == GenerateRefreshToken(config, userID, t, refreshFails)
    IN  IF access.err # Nil
        THEN [pair |-> NoPair, err |-> "failed to generate access token"]
        ELSE IF refresh.err # Nil
        THEN [pair |-> NoPair, err |-> "failed to generate refresh token"]
        ELSE [pair |-> [AccessToken |-> access.tokenString,
                        RefreshToken |-> refresh.tokenString,
                        TokenType |-> "Bearer",
                        ExpiresIn |-> Seconds(config.ExpirationTime)],
              err |-> Nil]

\* the literal the audience loop of ValidateAccessToken compares with
AccessAudience == S("go-service-api") \o S("-users")

\* the literal the audience loop of ValidateRefreshToken compares with
RefreshAudience == S("go-service-api") \o S("-refresh")

\* ValidateAccessToken without the audience loop
ValidateAccessToken_AnyAudience(config, tokenStr, t) ==
    LET parsed == ParseWithClaims(tokenStr, config.SecretKey, t)
    IN  IF parsed.err # Nil
        THEN [claims |-> NoClaims, err |-> "failed to parse access token"]
        ELSE IF ~parsed.valid
        THEN [claims |-> NoClaims, err |-> "invalid access token"]
        ELSE IF parsed.claims.iss # config.Issuer
        THEN [claims |-> NoClaims, err |-> "invalid token issuer"]
        ELSE [claims |-> parsed.claims, err |-> Nil]

ValidateAccessToken(config, tokenStr, t) ==
    LET parsed == ParseWithClaims(tokenStr, config.SecretKey, t)
    IN  IF parsed.err # Nil
        THEN [claims |-> NoClaims, err |-> "failed to parse access token"]
        ELSE IF ~parsed.valid
        THEN [claims |-> NoClaims, err |-> "invalid access token"]
        ELSE IF parsed.claims.iss # config.Issuer
        THEN [claims |-> NoClaims, err |-> "invalid token issuer"]
        ELSE IF ~(\E i \in DOMAIN parsed.claims.aud :
                      parsed.claims.aud[i] = AccessAudience)
        THEN [claims |-> NoClaims, err |-> "invalid token audience"]
        ELSE [claims |-> parsed.claims, err |-> Nil]

\* ValidateRefreshToken without the audience loop
ValidateRefreshToken_AnyAudience(config, tokenStr, t) ==
    LET parsed == ParseWithClaims(tokenStr, config.SecretKey, t)
    IN  IF parsed.err # Nil
        THEN [claims |-> NoClaims, err |-> "failed to parse refresh token"]
        ELSE IF ~parsed.valid
        THEN [claims |-> NoClaims, err |-> "invalid refresh token"]
        ELSE IF parsed.claims.iss # config.Issuer
        THEN [claims |-> NoClaims, err |-> "invalid token issuer"]
        ELSE [claims |-> parsed.claims, err |-> Nil]

ValidateRefreshToken(config, tokenStr, t) ==
    LET parsed == ParseWithClaims(tokenStr, config.SecretKey, t)
    IN  IF parsed.err # Nil
        THEN [claims |-> NoClaims, err |-> "failed to parse refresh token"]
        ELSE IF ~parsed.valid
        THEN [claims |-> NoClaims, err |-> "invalid refresh token"]
        ELSE IF parsed.claims.iss # config.Issuer
        THEN [claims |-> NoClaims, err |-> "invalid token issuer"]
        ELSE IF ~(\E i \in DOMAIN parsed.claims.aud :
                      parsed.claims.aud[i] = RefreshAudience)
        THEN [claims |-> NoClaims, err |-> "invalid token audience"]
        ELSE [claims |-> parsed.claims, err |-> Nil]

-----------------------------------------------------------------------------
(* HTTP responses (internal/middleware/error_middleware.go) *)

StatusOK == 200

StatusUnauthorized == 401

\* type ErrorResponse struct, written with c.Status(status).JSON(...)
AuthErrorResponse(msg) ==
    [status |-> StatusUnauthorized,
     body |-> [error |-> "unauthorized", message |-> msg,
               code |-> StatusUnauthorized]]

StatusBadRequest == 400

StatusForbidden == 403

StatusNotFound == 404

StatusMethodNotAllowed == 405

StatusInternalServerError == 500

StatusServiceUnavailable == 503

ValidationErrorResponse(msg) ==
    [status |-> StatusBadRequest,
     body |-> [error |-> "validation_error", message |-> msg,
               code |-> StatusBadRequest]]

NotFoundResponse(msg) ==
    [status |-> StatusNotFound,
     body |-> [error |-> "not_found", message |-> msg, code |-> StatusNotFound]]

InternalErrorResponse(msg) ==
    [status |-> StatusInternalServerError,
     body |-> [error |-> "internal_error", message |-> msg,
               code |-> StatusInternalServerError]]

\* statusMessage without the case of fiber.StatusServiceUnavailable
statusMessage_NoServiceUnavailable(code) ==
    CASE code = StatusBadRequest -> "bad_request"
      [] code = StatusUnauthorized -> "unauthorized"
      [] code = StatusForbidden -> "forbidden"
      [] code = StatusNotFound -> "not_found"
      [] code = StatusInternalServerError -> "internal_error"
      [] OTHER -> "error"

statusMessage(code) ==
    CASE code = StatusBadRequest -> "bad_request"
      [] code = StatusUnauthorized -> "unauthorized"
      [] code = StatusForbidden -> "forbidden"
      [] code = StatusNotFound -> "not_found"
      [] code = StatusInternalServerError -> "internal_error"
      [] code = StatusServiceUnavailable -> "service_unavailable"
      [] OTHER -> "error"

\* a Go error value that is nil
NoError == [nil |-> TRUE]

\* what running a fiber.Handler comes to: the response written so far, the
\* error it returns, and whether it panics instead of returning
Returns(response, err) == [response |-> response, err |-> err, panic |-> FALSE]

\* the response of a context nothing was written to
DefaultResponse == [status |-> StatusOK]

Panics(response) == [response |-> response, err |-> NoError, panic |-> TRUE]

\* ErrorHandler without the deferred recover()
ErrorHandler_NoRecover(downstream) ==
    IF downstream.panic
    THEN downstream
    ELSE IF downstream.err # NoError
    THEN LET code == IF downstream.err.fiber THEN downstream.err.Code
                     ELSE StatusInternalServerError
         IN  Returns([status |-> code,
                      body |-> [error |-> statusMessage(code),
                                message |-> downstream.err.Message,
                                code |-> code]],
                     NoError)
    ELSE Returns(downstream.response, NoError)

\* ErrorHandler that answers every returned error with the status 500
ErrorHandler_Status500(downstream) ==
    IF downstream.panic
    THEN Returns(InternalErrorResponse("An unexpected error occurred"), NoError)
    ELSE IF downstream.err # NoError
    THEN LET code == IF downstream.err.fiber THEN downstream.err.Code
                     ELSE StatusInternalServerError
         IN  Returns([status |-> StatusInternalServerError,
                      body |-> [error |-> statusMessage(code),
                                message |-> downstream.err.Message,
                                code |-> code]],
                     NoError)
    ELSE Returns(downstream.response, NoError)

\* the handler ErrorHandler() returns, run on a request whose c.Next() comes
\* to downstream
ErrorHandler(downstream) ==
    IF downstream.panic
    THEN Returns(InternalErrorResponse("An unexpected error occurred"), NoError)
    ELSE IF downstream.err # NoError
    THEN LET code == IF downstream.err.fiber THEN downstream.err.Code
                     ELSE StatusInternalServerError
         IN  Returns([status |-> code,
                      body |-> [error |-> statusMessage(code),
                                message |-> downstream.err.Message,
                                code |-> code]],
                     NoError)
    ELSE Returns(downstream.response, NoError)

-----------------------------------------------------------------------------
(* Authentication middleware (internal/middleware/auth_middleware.go) *)

Space == [str |-> " "]

Bearer == S("Bearer")

\* strings.SplitN(s, " ", 2)
SplitN2(s) ==
    IF \E i \in DOMAIN s : s[i] = Space
    THEN LET i == CHOOSE k \in DOMAIN s :
                      /\ s[k] = Space
                      /\ \A j \in 1..(k - 1) : s[j] # Space
         IN  <<SubSeq(s, 1, i - 1), SubSeq(s, i + 1, Len(s))>>
    ELSE <<s>>

\* extractBearerToken that compares the scheme word without regard to case
extractBearerToken_EqualFold(authHeader) ==
    LET parts == SplitN2(authHeader)
    IN  IF Len(parts) # 2 \/ parts[1] \notin {Bearer, S("bearer")}
        THEN [token |-> EmptyString, err |-> "invalid bearer token format"]
        ELSE IF parts[2] = EmptyString
        THEN [token |-> EmptyString, err |-> "empty token"]
        ELSE [token |-> parts[2], err |-> Nil]

extractBearerToken(authHeader) ==
    LET parts == SplitN2(authHeader)
    IN  IF Len(parts) # 2 \/ parts[1] # Bearer
        THEN [token |-> EmptyString, err |-> "invalid bearer token format"]
        ELSE IF parts[2] = EmptyString
        THEN [token |-> EmptyString, err |-> "empty token"]
        ELSE [token |-> parts[2], err |-> Nil]

NoLocals == [none |-> TRUE]

\* AuthMiddleware without the check for an empty header
AuthMiddleware_NoHeaderCheck(config, authHeader, t) ==
    LET extracted == extractBearerToken(authHeader)
    IN  IF extracted.err # Nil
        THEN [response |-> AuthErrorResponse("invalid authorization header format"),
              locals |-> NoLocals, next |-> FALSE]
        ELSE LET validated == ValidateAccessToken(config, extracted.token, t)
             IN  IF validated.err # Nil
                 THEN [response |-> AuthErrorResponse("invalid or expired access token"),
                       locals |-> NoLocals, next |-> FALSE]
                 ELSE [response |-> [status |-> StatusOK],
                       locals |-> [user_id |-> validated.claims.user_id],
                       next |-> TRUE]

\* AuthMiddleware that answers with the error of the validator
AuthMiddleware_ValidatorError(config, authHeader, t) ==
    IF authHeader = EmptyString
    THEN [response |-> AuthErrorResponse("missing authorization header"),
          locals |-> NoLocals, next |-> FALSE]
    ELSE LET extracted == extractBearerToken(authHeader)
         IN  IF extracted.err # Nil
             THEN [response |-> AuthErrorResponse("invalid authorization header format"),
                   locals |-> NoLocals, next |-> FALSE]
             ELSE LET validated == ValidateAccessToken(config, extracted.token, t)
                  IN  IF validated.err # Nil
                      THEN [response |-> AuthErrorResponse(validated.err),
                            locals |-> NoLocals, next |-> FALSE]
                      ELSE [response |-> [status |-> StatusOK],
                            locals |-> [user_id |-> validated.claims.user_id],
                            next |-> TRUE]

\* the handler AuthMiddleware(tm) returns, run on a request whose
\* Authorization header is authHeader ("" when the header is absent);
\* next tells whether c.Next() was called
AuthMiddleware(config, authHeader, t) ==
    IF authHeader = EmptyString
    THEN [response |-> AuthErrorResponse("missing authorization header"),
          locals |-> NoLocals, next |-> FALSE]
    ELSE LET extracted == extractBearerToken(authHeader)
         IN  IF extracted.err # Nil
             THEN [response |-> AuthErrorResponse("invalid authorization header format"),
                   locals |-> NoLocals, next |-> FALSE]
             ELSE LET validated == ValidateAccessToken(config, extracted.token, t)
                  IN  IF validated.err # Nil
                      THEN [response |-> AuthErrorResponse("invalid or expired access token"),
                            locals |-> NoLocals, next |-> FALSE]
                      ELSE [response |-> [status |-> StatusOK],
                            locals |-> [user_id |-> validated.claims.user_id],
                            next |-> TRUE]

\* the zero value uuid.UUID{}
ZeroUUID == "00000000-0000-0000-0000-000000000000"

\* the values of type uuid.UUID
UUID == Users \cup {ZeroUUID}

\* GetUserIDFromContext that returns whatever is stored under the key
GetUserIDFromContext_AnyType(locals) ==
    IF locals = NoLocals
    THEN [userID |-> ZeroUUID, err |-> "user_id not found in context",
          panic |-> FALSE]
    ELSE [userID |-> locals.user_id, err |-> Nil, panic |-> FALSE]

\* GetUserIDFromContext(c) on a context whose locals are given; the type
\* assertion is of the two-result form, which does not panic
GetUserIDFromContext(locals) ==
    IF locals = NoLocals
    THEN [userID |-> ZeroUUID, err |-> "user_id not found in context",
          panic |-> FALSE]
    ELSE IF locals.user_id \notin UUID
    THEN [userID |-> ZeroUUID, err |-> "invalid user_id type in context",
          panic |-> FALSE]
    ELSE [userID |-> locals.user_id, err |-> Nil, panic |-> FALSE]

\* the handler ProfileHandler(db) returns, run on a context with these locals
ProfileHandler(locals) ==
    LET got == GetUserIDFromContext(locals)
    IN  IF got.err # Nil
        THEN Returns(AuthErrorResponse("user not authenticated"), NoError)
        ELSE Returns([status |-> StatusOK, body |-> [user_id |-> got.userID]],
                     NoError)

\* the chain app.Use(ErrorHandler(), AuthMiddleware(tm)) followed by
\* ProfileHandler: what AuthMiddleware did, and what the chain comes to
Protected(config, authHeader, t) ==
    LET auth == AuthMiddleware(config, authHeader, t)
        downstream == IF auth.next THEN ProfileHandler(auth.locals)
                      ELSE Returns(auth.response, NoError)
    IN  [auth |-> auth, handlerRan |-> auth.next,
         end |-> ErrorHandler(downstream)]

-----------------------------------------------------------------------------
(* Refresh flow (RefreshTokenHandler) *)

\* a request body c.Bind().Body(&req) fails on
MalformedBody == [malformed |-> TRUE]

\* RefreshTokenHandler that answers 200 although the signing failed
RefreshTokenHandler_IgnoreSigningError(config, body, t, signingFails) ==
    IF body = MalformedBody
    THEN [response |-> ValidationErrorResponse("invalid request body"),
          validateCalled |-> FALSE, generateCalled |-> FALSE]
    ELSE LET validated == ValidateRefreshToken(config, body.refresh_token, t)
         IN  IF validated.err # Nil
             THEN [response |-> AuthErrorResponse("invalid or expired refresh token"),
                   validateCalled |-> TRUE, generateCalled |-> FALSE]
             ELSE LET generated == GenerateAccessToken(config, validated.claims.user_id,
                                                       t, signingFails)
                  IN  [response |->
                           [status |-> StatusOK,
                            body |-> [access_token |-> generated.tokenString,
                                      refresh_token |-> body.refresh_token,
                                      token_type |-> "Bearer",
                                      expires_in |-> Seconds(config.ExpirationTime)]],
                       validateCalled |-> TRUE, generateCalled |-> TRUE]

\* RefreshTokenHandler that answers with a new refresh token
RefreshTokenHandler_Rotate(config, body, t, signingFails) ==
    IF body = MalformedBody
    THEN [response |-> ValidationErrorResponse("invalid request body"),
          validateCalled |-> FALSE, generateCalled |-> FALSE]
    ELSE LET validated == ValidateRefreshToken(config, body.refresh_token, t)
         IN  IF validated.err # Nil
             THEN [response |-> AuthErrorResponse("invalid or expired refresh token"),
                   validateCalled |-> TRUE, generateCalled |-> FALSE]
             ELSE LET generated == GenerateTokenPair(config, validated.claims.user_id,
                                                     t, signingFails, signingFails)
                  IN  IF generated.err # Nil
                      THEN [response |->
                                InternalErrorResponse("failed to generate access token"),
                            validateCalled |-> TRUE, generateCalled |-> TRUE]
                      ELSE [response |->
                                [status |-> StatusOK,
                                 body |-> [access_token |-> generated.pair.AccessToken,
                                           refresh_token |-> generated.pair.RefreshToken,
                                           token_type |-> "Bearer",
                                           expires_in |-> Seconds(config.ExpirationTime)]],
                            validateCalled |-> TRUE, generateCalled |-> TRUE]

\* the handler RefreshTokenHandler(db, cfg) returns, run at clock time t on a
\* request with this body; validateCalled and generateCalled tell which
\* methods of the manager it called
RefreshTokenHandler(config, body, t, signingFails) ==
    IF body = MalformedBody
    THEN [response |-> ValidationErrorResponse("invalid request body"),
          validateCalled |-> FALSE, generateCalled |-> FALSE]
    ELSE LET validated == ValidateRefreshToken(config, body.refresh_token, t)
         IN  IF validated.err # Nil
             THEN [response |-> AuthErrorResponse("invalid or expired refresh token"),
                   validateCalled |-> TRUE, generateCalled |-> FALSE]
             ELSE LET generated == GenerateAccessToken(config, validated.claims.user_id,
                                                       t, signingFails)
                  IN  IF generated.err # Nil
                      THEN [response |->
                                InternalErrorResponse("failed to generate access token"),
                            validateCalled |-> TRUE, generateCalled |-> TRUE]
                      ELSE [response |->
                                [status |-> StatusOK,
                                 body |-> [access_token |-> generated.tokenString,
                                           refresh_token |-> body.refresh_token,
                                           token_type |-> "Bearer",
                                           expires_in |-> Seconds(config.ExpirationTime)]],
                            validateCalled |-> TRUE, generateCalled |-> TRUE]

-----------------------------------------------------------------------------
(* The token state machine: a service whose manager is built (and rebuilt,  *)
(* as the handlers do per request or per restart) from a config, a clock,   *)
(* and a client that holds one string at a time and submits it.             *)

NoOrigin == [kind |-> "none", sameManager |-> FALSE, userID |-> ""]

InitTM ==
    /\ now = 0
    /\ tm = NoManager
    /\ held = EmptyString
    /\ origin = NoOrigin
    /\ res = [op |-> "none"]
    /\ server = "running"
    /\ db = {}
    /\ seen = {}
    /\ main = NotStarted

\* time passes
Tick ==
    /\ now < MaxTime
    /\ now' = now + 1
    /\ res' = [op |-> "none"]
    /\ UNCHANGED <<tm, held, origin, server, db, seen, main>>

\* func NewTokenManager(config TokenConfig) *TokenManager
NewTokenManager(config) ==
    /\ tm' = config
    /\ origin' = [origin EXCEPT !.sameManager = FALSE]
    /\ res' = [op |-> "none"]
    /\ UNCHANGED <<now, held, server, db, seen, main>>

\* a call of tm.GenerateAccessToken(userID); the client keeps the token
DoGenerateAccessToken(userID, signingFails) ==
    /\ tm # NoManager
    /\ LET out == GenerateAccessToken(tm, userID, now, signingFails)
       IN  /\ res' = [op |-> "GenerateAccessToken", out |-> out]
           /\ IF out.err = Nil
              THEN /\ held' = out.tokenString
                   /\ origin' = [kind |-> "access", sameManager |-> TRUE, userID |-> userID]
              ELSE UNCHANGED <<held, origin>>
    /\ UNCHANGED <<now, tm, server, db, seen, main>>

\* a call of tm.GenerateRefreshToken(userID); the client keeps the token
DoGenerateRefreshToken(userID, signingFails) ==
    /\ tm # NoManager
    /\ LET out == GenerateRefreshToken(tm, userID, now, signingFails)
       IN  /\ res' = [op |-> "GenerateRefreshToken", out |-> out]
           /\ IF out.err = Nil
              THEN /\ held' = out.tokenString
                   /\ origin' = [kind |-> "refresh", sameManager |-> TRUE, userID |-> userID]
              ELSE UNCHANGED <<held, origin>>
    /\ UNCHANGED <<now, tm, server, db, seen, main>>

\* a call of tm.GenerateTokenPair(userID), in which no signing, the signing
\* of the access token or that of the refresh token fails; the client goes
\* on with one of the two tokens of the pair
DoGenerateTokenPair(userID, failing, keep) ==
    /\ tm # NoManager
    /\ LET out == GenerateTokenPair(tm, userID, now, failing = "access",
                                    failing = "refresh")
       IN  /\ res' = [op |-> "GenerateTokenPair", out |-> out]
           /\ IF out.err = Nil
              THEN /\ held' = IF keep = "access" THEN out.pair.AccessToken
                                                 ELSE out.pair.RefreshToken
                   /\ origin' = [kind |-> keep, sameManager |-> TRUE, userID |-> userID]
              ELSE UNCHANGED <<held, origin>>
    /\ UNCHANGED <<now, tm, server, db, seen, main>>

\* the audiences a client that knows a key may put into a token it signs
ForgedAudiences ==
    {<<AccessAudience>>, <<RefreshAudience>>, <<AccessAudience, RefreshAudience>>}

\* the client builds a token itself, with the issuer the service uses, and
\* signs it with a key it knows
Forge(method, key, userID, aud) ==
    /\ tm # NoManager
    /\ LET claims == [user_id |-> userID,
                      exp |-> NewNumericDate(MaxTime) + TimePrecision,
                      iat |-> 0, nbf |-> 0, iss |-> tm.Issuer, aud |-> aud]
       IN  held' = SignedString(method, claims, key, FALSE).tokenString
    /\ origin' = [kind |-> "forged", sameManager |-> FALSE, userID |-> userID]
    /\ res' = [op |-> "none"]
    /\ UNCHANGED <<now, tm, server, db, seen, main>>

\* the client holds a string that is no token at all
Garbage ==
    /\ held' = S("invalid-token")
    /\ origin' = [kind |-> "garbage", sameManager |-> FALSE, userID |-> ""]
    /\ res' = [op |-> "none"]
    /\ UNCHANGED <<now, tm, server, db, seen, main>>

\* a call of tm.ValidateAccessToken(held)
DoValidateAccessToken ==
    /\ tm # NoManager
    /\ res' = [op |-> "ValidateAccessToken",
               out |-> ValidateAccessToken(tm, held, now)]
    /\ UNCHANGED <<now, tm, held, origin, server, db, seen, main>>

\* a call of tm.ValidateRefreshToken(held)
DoValidateRefreshToken ==
    /\ tm # NoManager
    /\ res' = [op |-> "ValidateRefreshToken",
               out |-> ValidateRefreshToken(tm, held, now)]
    /\ UNCHANGED <<now, tm, held, origin, server, db, seen, main>>

\* the Authorization headers the client builds from the string it holds
AuthHeaders(tokenStr) ==
    {Bearer \o <<Space>> \o tokenStr, tokenStr, EmptyString}

\* a request through AuthMiddleware(tm)
Request(authHeader) ==
    /\ tm # NoManager
    /\ res' = [op |-> "AuthMiddleware", authHeader |-> authHeader,
               out |-> AuthMiddleware(tm, authHeader, now)]
    /\ UNCHANGED <<now, tm, held, origin, server, db, seen, main>>

NextTM ==
    \/ Tick
    \/ \E config \in TokenConfig : NewTokenManager(config)
    \/ \E u \in Users, f \in BOOLEAN : DoGenerateAccessToken(u, f)
    \/ \E u \in Users, f \in BOOLEAN : DoGenerateRefreshToken(u, f)
    \/ \E u \in Users, failing \in {"none", "access", "refresh"},
          keep \in {"access", "refresh"} :
           DoGenerateTokenPair(u, failing, keep)
    \/ \E m \in SigningMethods, k \in Secrets, aud \in ForgedAudiences :
           Forge(m, k, "u1", aud)
    \/ Garbage
    \/ DoValidateAccessToken
    \/ DoValidateRefreshToken
    \/ \E h \in AuthHeaders(held) : Request(h)

Spec == InitTM /\ [][NextTM]_vars

-----------------------------------------------------------------------------
(* extractBearerToken as a function of the header value *)

HeaderItems ==
    {[str |-> "Bearer"], [str |-> "bearer"], [str |-> "Basic"],
     [str |-> "x"], [str |-> "\t"], Space}

\* the strings of at most n items
RECURSIVE StringsUpTo(_)
StringsUpTo(n) ==
    IF n = 0 THEN {EmptyString}
    ELSE LET shorter == StringsUpTo(n - 1)
         IN  shorter \cup {Append(h, item) : h \in shorter, item \in HeaderItems}

\* the client holds any header value of at most MaxHeaderLen items; the
\* manager AuthMiddleware is built with holds any config
InitBearer ==
    /\ now = 0
    /\ tm \in TokenConfig
    /\ held \in StringsUpTo(MaxHeaderLen)
    /\ origin = [kind |-> "header", sameManager |-> FALSE, userID |-> ""]
    /\ res = [op |-> "none"]
    /\ server = "running"
    /\ db = {}
    /\ seen = {}
    /\ main = NotStarted

\* a call of extractBearerToken(held)
DoExtractBearerToken ==
    /\ res' = [op |-> "extractBearerToken", out |-> extractBearerToken(held)]
    /\ UNCHANGED <<now, tm, held, origin, server, db, seen, main>>

NextBearer ==
    \/ DoExtractBearerToken
    \/ Request(held)

SpecBearer == InitBearer /\ [][NextBearer]_vars

-----------------------------------------------------------------------------
(* The application: the routes under ErrorHandler, the protected route and   *)
(* the refresh route, served by one process to a client that holds a token  *)

\* the configs the service is started with
AppConfigs ==
    {config \in TokenConfig : config.SecretKey = "k1" /\ config.RefreshDuration > 0}

\* messages a caller gives to a response helper
Messages == {"name is required", ""}

Helpers ==
    {"ValidationErrorResponse", "AuthErrorResponse", "NotFoundResponse",
     "InternalErrorResponse"}

\* a call of one of the four response helpers
ErrorResponseOf(helper, msg) ==
    CASE helper = "ValidationErrorResponse" -> ValidationErrorResponse(msg)
      [] helper = "AuthErrorResponse" -> AuthErrorResponse(msg)
      [] helper = "NotFoundResponse" -> NotFoundResponse(msg)
      [] helper = "InternalErrorResponse" -> InternalErrorResponse(msg)

\* requests to the routes of the /api/v1 group
ExampleRoutes ==
    {"POST /examples/users {}", "GET /examples/users/123", "GET /examples/users/7",
     "GET /examples/protected", "GET /examples/data", "GET /examples/panic",
     "GET /unknown", "PUT /examples/data", "GET /broken"}

\* what c.Next() comes to for a request to one of these routes: the handlers
\* of examples.go, the router's errors for a path or a method no route
\* matches, and a handler that returns an error that is no *fiber.Error
ExampleHandler(route) ==
    CASE route = "POST /examples/users {}" ->
             Returns(ValidationErrorResponse("name is required"), NoError)
      [] route = "GET /examples/users/123" ->
             Returns([status |-> StatusOK, body |-> [id |-> 123]], NoError)
      [] route = "GET /examples/users/7" ->
             Returns(NotFoundResponse("user with id 7 not found"), NoError)
      [] route = "GET /examples/protected" ->
             Returns(AuthErrorResponse("missing authorization header"), NoError)
      [] route = "GET /examples/data" ->
             Returns([status |-> StatusOK, body |-> [data |-> "items"]], NoError)
      [] route = "GET /examples/panic" -> Panics(DefaultResponse)
      [] route = "GET /unknown" ->
             Returns(DefaultResponse,
                     [fiber |-> TRUE, Code |-> StatusNotFound,
                      Message |-> "Cannot GET /api/v1/unknown"])
      [] route = "PUT /examples/data" ->
             Returns(DefaultResponse,
                     [fiber |-> TRUE, Code |-> StatusMethodNotAllowed,
                      Message |-> "Method Not Allowed"])
      [] route = "GET /broken" ->
             Returns(DefaultResponse, [fiber |-> FALSE, Message |-> "broken"])

\* the process goes down with a panic no handler recovers from
AfterRequest(panic) == IF panic THEN "crashed" ELSE server

\* a handler calls one of the response helpers
DoErrorResponse(helper, msg) ==
    /\ server = "running"
    /\ res' = [op |-> helper, msg |-> msg, out |-> ErrorResponseOf(helper, msg)]
    /\ UNCHANGED <<now, tm, held, origin, server, db, seen, main>>

\* a request to a route of the /api/v1 group, which ErrorHandler() wraps
ExampleRequest(route) ==
    /\ server = "running"
    /\ LET end == ErrorHandler(ExampleHandler(route))
       IN  /\ res' = [op |-> "ErrorHandler", route |-> route,
                      downstream |-> ExampleHandler(route), out |-> end]
           /\ server' = AfterRequest(end.panic)
    /\ UNCHANGED <<now, tm, held, origin, db, seen, main>>

\* the errors a handler may return: a *fiber.Error of each status code that
\* statusMessage names and of two it does not name, and an error of another
\* type
DownstreamErrors ==
    {[fiber |-> TRUE, Code |-> code, Message |-> "refused"] :
         code \in {StatusBadRequest, StatusUnauthorized, StatusForbidden,
                   StatusNotFound, StatusMethodNotAllowed,
                   StatusInternalServerError, StatusServiceUnavailable, StatusOK}}
    \cup {[fiber |-> FALSE, Message |-> "connection refused"]}

\* a request under ErrorHandler() whose handler returns the error err
\* without having written a response
ErrorRequest(err) ==
    /\ server = "running"
    /\ LET downstream == Returns(DefaultResponse, err)
           end == ErrorHandler(downstream)
       IN  /\ res' = [op |-> "ErrorHandler", route |-> "error",
                      downstream |-> downstream, out |-> end]
           /\ server' = AfterRequest(end.panic)
    /\ UNCHANGED <<now, tm, held, origin, db, seen, main>>

\* a request to the protected route through ErrorHandler() and
\* AuthMiddleware(tm)
ProtectedRequest(authHeader) ==
    /\ server = "running"
    /\ tm # NoManager
    /\ LET out == Protected(tm, authHeader, now)
       IN  /\ res' = [op |-> "Protected", authHeader |-> authHeader, out |-> out]
           /\ server' = AfterRequest(out.end.panic)
    /\ UNCHANGED <<now, tm, held, origin, db, seen, main>>

\* the values a handler may find stored under the key user_id
StoredLocals ==
    {NoLocals} \cup {[user_id |-> v] : v \in Users \cup {"not-a-uuid"}}

\* a handler calls GetUserIDFromContext(c)
DoGetUserIDFromContext(locals) ==
    /\ server = "running"
    /\ LET out == GetUserIDFromContext(locals)
       IN  /\ res' = [op |-> "GetUserIDFromContext", locals |-> locals, out |-> out]
           /\ server' = AfterRequest(out.panic)
    /\ UNCHANGED <<now, tm, held, origin, db, seen, main>>

\* the bodies the client sends to the refresh route
RefreshBodies(tokenStr) == {MalformedBody, [refresh_token |-> tokenStr]}

\* a request to the refresh route
RefreshRequest(body, signingFails) ==
    /\ server = "running"
    /\ tm # NoManager
    /\ res' = [op |-> "RefreshTokenHandler", body |-> body,
               signingFails |-> signingFails,
               out |-> RefreshTokenHandler(tm, body, now, signingFails)]
    /\ UNCHANGED <<now, tm, held, origin, server, db, seen, main>>

NextApp ==
    \/ Tick
    \/ \E config \in AppConfigs : NewTokenManager(config)
    \/ \E u \in Users, f \in BOOLEAN : DoGenerateAccessToken(u, f)
    \/ \E u \in Users, f \in BOOLEAN : DoGenerateRefreshToken(u, f)
    \/ \E k \in Secrets, aud \in ForgedAudiences : Forge("HS256", k, "u1", aud)
    \/ Garbage
    \/ \E helper \in Helpers, msg \in Messages : DoErrorResponse(helper, msg)
    \/ \E route \in ExampleRoutes : ExampleRequest(route)
    \/ \E err \in DownstreamErrors : ErrorRequest(err)
    \/ \E h \in AuthHeaders(held) : ProtectedRequest(h)
    \/ \E locals \in StoredLocals : DoGetUserIDFromContext(locals)
    \/ \E body \in RefreshBodies(held), f \in BOOLEAN : RefreshRequest(body, f)

SpecApp == InitTM /\ [][NextApp]_vars

-----------------------------------------------------------------------------
(* Signup (internal/domain/authentication/signup); a password is a sequence *)
(* of characters                                                            *)

\* the character class [A-Z]
UpperChars ==
    {"A", "B", "C", "D", "E", "F", "G", "H", "I", "J", "K", "L", "M", "N",
     "O", "P", "Q", "R", "S", "T", "U", "V", "W", "X", "Y", "Z"}

\* the character class [a-z]
LowerChars ==
    {"a", "b", "c", "d", "e", "f", "g", "h", "i", "j", "k", "l", "m", "n",
     "o", "p", "q", "r", "s", "t", "u", "v", "w", "x", "y", "z"}

\* the character class [0-9]
DigitChars ==
    {"0", "1", "2", "3", "4", "5", "6", "7", "8", "9"}

\* the character class of the fourth regular expression
SpecialChars ==
    {"!", "@", "#", "$", "%", "^", "&", "*", "(", ")", "_", "+", "=", "[",
     "]", "{", "}", ";", ":", "'", "\"", ",", ".", "<", ">", "?", "/",
     "\\", "|", "-"}

\* regexp.MustCompile(class).MatchString(password)
MatchString(class, password) == \E i \in DOMAIN password : password[i] \in class

ValidatePasswordStrength(password) ==
    [HasUppercase |-> MatchString(UpperChars, password),
     HasLowercase |-> MatchString(LowerChars, password),
     HasNumber |-> MatchString(DigitChars, password),
     HasSpecial |-> MatchString(SpecialChars, password),
     IsValid |-> /\ MatchString(UpperChars, password)
                 /\ MatchString(LowerChars, password)
                 /\ MatchString(DigitChars, password)
                 /\ MatchString(SpecialChars, password)]

\* validate:"required,min=8,max=255" of SignupRequest.Password
MinPasswordLen == 8

MaxPasswordLen == 255

\* the strings the validator's email tag accepts, among those used here
ValidEmails == {"user@example.com"}

\* validate.Struct(req): at most one error per field, in the order of the
\* fields, for the first tag of the field that fails
StructErrors(req) ==
    LET email == IF req.Email = ""
                 THEN <<[Field |-> "Email", Message |-> "Email is required"]>>
                 ELSE IF req.Email \notin ValidEmails
                 THEN <<[Field |-> "Email",
                         Message |-> "Email must be a valid email address"]>>
                 ELSE <<>>
        password == IF req.Password = <<>>
                    THEN <<[Field |-> "Password", Message |-> "Password is required"]>>
                    ELSE IF Len(req.Password) < MinPasswordLen
                    THEN <<[Field |-> "Password",
                            Message |-> "Password must be at least 8 characters"]>>
                    ELSE IF Len(req.Password) > MaxPasswordLen
                    THEN <<[Field |-> "Password",
                            Message |-> "Password must not exceed 255 characters"]>>
                    ELSE <<>>
        fullName == IF req.FullName = ""
                    THEN <<[Field |-> "FullName", Message |-> "FullName is required"]>>
                    ELSE <<>>
        username == IF req.Username = ""
                    THEN <<[Field |-> "Username", Message |-> "Username is required"]>>
                    ELSE <<>>
    IN  email \o password \o fullName \o username

ValidateSignupRequest(req) ==
    LET errors == StructErrors(req)
    IN  IF errors = <<>> /\ req.Password # <<>>
        THEN IF ~ValidatePasswordStrength(req.Password).IsValid
             THEN <<[Field |-> "Password",
                     Message |-> "Password must contain uppercase letters, lowercase letters, numbers, and special characters"]>>
             ELSE <<>>
        ELSE errors

NoHash == [none |-> TRUE]

\* hashpassword.HashPassword: Argon2id with the fixed salt, as an ideal hash
HashPassword(password) ==
    IF password = <<>>
    THEN [hash |-> NoHash, err |-> "password cannot be empty"]
    ELSE [hash |-> [argon2 |-> password, salt |-> "salt"], err |-> Nil]

NoUser == [none |-> TRUE]

\* SignupRepository.SaveUser: the INSERT fails when the database fails or
\* when the email or the username is taken (UNIQUE)
SaveUser(rows, user, id, dbFails) ==
    IF \/ dbFails
       \/ \E row \in rows : row.Email = user.Email \/ row.Username = user.Username
                             \/ row.ID = id
    THEN [rows |-> rows, user |-> NoUser, err |-> "failed to save user"]
    ELSE LET saved == [ID |-> id, Email |-> user.Email, Password |-> user.Password,
                       FullName |-> user.FullName, Username |-> user.Username,
                       IsActive |-> TRUE]
         IN  [rows |-> rows \cup {saved}, user |-> saved, err |-> Nil]

\* SignupService.RegisterUser at clock time t: the outcome and the rows of
\* the users table after it
RegisterUser(config, rows, req, id, dbFails, failing, t) ==
    IF ~ValidatePasswordStrength(req.Password).IsValid
    THEN [response |-> NoUser, rows |-> rows,
          err |-> "password must contain uppercase letters, lowercase letters, numbers, and special characters"]
    ELSE LET hashed == HashPassword(req.Password)
         IN  IF hashed.err # Nil
             THEN [response |-> NoUser, rows |-> rows, err |-> "failed to hash password"]
             ELSE LET user == [Email |-> req.Email, Password |-> hashed.hash,
                               FullName |-> req.FullName, Username |-> req.Username]
                      saved == SaveUser(rows, user, id, dbFails)
                  IN  IF saved.err # Nil
                      THEN [response |-> NoUser, rows |-> rows,
                            err |-> "failed to register user"]
                      ELSE LET generated ==
                                   GenerateTokenPair(config, saved.user.ID, t,
                                                     failing = "access",
                                                     failing = "refresh")
                           IN  IF generated.err # Nil
                               THEN [response |-> NoUser, rows |-> saved.rows,
                                     err |-> "failed to generate tokens"]
                               ELSE [response |->
                                         [User |-> saved.user,
                                          AccessToken |-> generated.pair.AccessToken,
                                          RefreshToken |-> generated.pair.RefreshToken,
                                          TokenType |-> generated.pair.TokenType,
                                          ExpiresIn |-> generated.pair.ExpiresIn],
                                     rows |-> saved.rows, err |-> Nil]

StatusCreated == 201

\* the handler SignupHandler(db, cfg) returns, on a request whose body binds
\* to req
SignupHandler(config, rows, req, id, dbFails, failing, t) ==
    LET validationErrors == ValidateSignupRequest(req)
    IN  IF Len(validationErrors) > 0
        THEN [response |-> [status |-> StatusBadRequest,
                            body |-> [error |-> "Validation failed",
                                      errors |-> validationErrors]],
              rows |-> rows]
        ELSE LET registered == RegisterUser(config, rows, req, id, dbFails,
                                            failing, t)
             IN  IF registered.err # Nil
                 THEN [response |-> [status |-> StatusBadRequest,
                                     body |-> [error |-> registered.err]],
                       rows |-> registered.rows]
                 ELSE [response |->
                           [status |-> StatusCreated,
                            body |-> [message |-> "User registered successfully",
                                      user |-> registered.response.User.ID,
                                      access_token |-> registered.response.AccessToken,
                                      refresh_token |-> registered.response.RefreshToken,
                                      token_type |-> registered.response.TokenType,
                                      expires_in |-> registered.response.ExpiresIn]],
                       rows |-> registered.rows]

\* the characters the passwords of the model are written with: one of each
\* class of ValidatePasswordStrength, a special character the fourth class
\* has and the documentation does not list, and one of no class
PasswordChars == {"A", "a", "1", "!", ".", " "}

RECURSIVE PasswordsUpTo(_)
PasswordsUpTo(n) ==
    IF n = 0 THEN {<<>>}
    ELSE LET shorter == PasswordsUpTo(n - 1)
         IN  shorter \cup {Append(w, c) : w \in shorter, c \in PasswordChars}

\* what a password starts with: nothing, or seven characters of no class, of
\* three classes without a special character, or without an uppercase letter
PasswordPrefixes ==
    {<<>>,
     <<" ", " ", " ", " ", " ", " ", " ">>,
     <<"A", "a", "1", " ", " ", " ", " ">>,
     <<"a", "1", "!", " ", " ", " ", " ">>}

\* the signup requests of the model
SignupRequests ==
    {[Email |-> email, Password |-> prefix \o rest,
      FullName |-> "John Doe", Username |-> "john_doe"] :
        email \in {"user@example.com", "nobody"},
        prefix \in PasswordPrefixes, rest \in PasswordsUpTo(MaxPasswordSuffix)}

\* the client holds a signup request; the service runs with the config of
\* the tests
InitSignup ==
    /\ now = 0
    /\ tm = [SecretKey |-> "k1", ExpirationTime |-> 2, RefreshDuration |-> 3,
             Issuer |-> GoServiceApi]
    /\ held \in SignupRequests
    /\ origin = [kind |-> "signup", sameManager |-> FALSE, userID |-> ""]
    /\ res = [op |-> "none"]
    /\ server = "running"
    /\ db = {}
    /\ seen = {}
    /\ main = NotStarted

\* a call of ValidatePasswordStrength(held.Password)
DoValidatePasswordStrength ==
    /\ res' = [op |-> "ValidatePasswordStrength",
               out |-> ValidatePasswordStrength(held.Password)]
    /\ UNCHANGED <<now, tm, held, origin, server, db, seen, main>>

\* a call of ValidateSignupRequest(&held)
DoValidateSignupRequest ==
    /\ res' = [op |-> "ValidateSignupRequest", out |-> ValidateSignupRequest(held)]
    /\ UNCHANGED <<now, tm, held, origin, server, db, seen, main>>

\* a call of service.RegisterUser(ctx, &held); id is the uuid.New() of
\* SaveUser
DoRegisterUser(id, dbFails, failing) ==
    /\ LET out == RegisterUser(tm, db, held, id, dbFails, failing, now)
       IN  /\ res' = [op |-> "RegisterUser", err |-> out.err]
           /\ db' = out.rows
    /\ UNCHANGED <<now, tm, held, origin, server, seen, main>>

\* a request to the signup route with held as its body
SignupRequest(id, dbFails, failing) ==
    /\ LET out == SignupHandler(tm, db, held, id, dbFails, failing, now)
       IN  /\ res' = [op |-> "SignupHandler", status |-> out.response.status]
           /\ db' = out.rows
    /\ UNCHANGED <<now, tm, held, origin, server, seen, main>>

NextSignup ==
    \/ DoValidatePasswordStrength
    \/ DoValidateSignupRequest
    \/ \E id \in Users, dbFails \in BOOLEAN, failing \in {"none", "access"} :
           DoRegisterUser(id, dbFails, failing)
    \/ \E id \in Users, dbFails \in BOOLEAN, failing \in {"none", "refresh"} :
           SignupRequest(id, dbFails, failing)

SpecSignup == InitSignup /\ [][NextSignup]_vars

-----------------------------------------------------------------------------
(* Requests in flight: the handlers run step by step, each request in its   *)
(* own goroutine with its own fiber.Ctx, all on one TokenManager.  Under    *)
(* SpecSteps the variable res holds the requests in flight                  *)

\* the requests that are served at the same time
RequestIDs == {1, 2}

\* the config the service runs with
StepConfig ==
    [SecretKey |-> "k1", ExpirationTime |-> 2, RefreshDuration |-> 3,
     Issuer |-> GoServiceApi]

\* the strings a client has got hold of: the tokens of a signin of u1 and of
\* u2 at time 0, and a string that is no token
ClientStrings ==
    {GenerateAccessToken(StepConfig, "u1", 0, FALSE).tokenString,
     GenerateAccessToken(StepConfig, "u2", 0, FALSE).tokenString,
     GenerateRefreshToken(StepConfig, "u1", 0, FALSE).tokenString,
     S("invalid-token")}

\* a request that has arrived: at is the clock times it has read so far,
\* token and claims the local variables of the handler, locals the c.Locals
\* of its context, handlerRuns the number of times the downstream handler
\* ran, issued the number of tokens a generator returned to it
NewRequest(kind, input) ==
    [kind |-> kind, pc |-> "Start", input |-> input, at |-> <<>>,
     token |-> EmptyString, claims |-> NoClaims, locals |-> NoLocals,
     response |-> DefaultResponse, handlerRuns |-> 0, issued |-> 0]

\* no request on this goroutine
Idle == [NewRequest("none", EmptyString) EXCEPT !.pc = "Idle"]

Reject(req, msg) ==
    [req EXCEPT !.pc = "Reject", !.response = AuthErrorResponse(msg)]

\* c.Locals(ContextKeyUserID) in the handler of request r reads the context
\* of another request
LocalsRead_FirstRequest(requests, r) == requests[1].locals

\* c.Locals(ContextKeyUserID) in the handler of request r
LocalsRead(requests, r) == requests[r].locals

\* AuthMiddlewareStep that stores the identity before the validation
AuthMiddlewareStep_StoreFirst(config, requests, r, t) ==
    LET req == requests[r]
    IN  CASE req.pc = "Start" ->
                 IF req.input = EmptyString
                 THEN Reject(req, "missing authorization header")
                 ELSE [req EXCEPT !.pc = "ExtractHeader"]
          [] req.pc = "ExtractHeader" ->
                 LET extracted == extractBearerToken(req.input)
                 IN  IF extracted.err # Nil
                     THEN Reject(req, "invalid authorization header format")
                     ELSE [req EXCEPT !.pc = "ParseBearer",
                                      !.token = extracted.token]
          [] req.pc = "ParseBearer" ->
                 LET validated == ValidateAccessToken(config, req.token, t)
                 IN  IF validated.err # Nil
                     THEN [Reject(req, "invalid or expired access token")
                               EXCEPT !.at = <<t>>,
                                      !.locals = [user_id |-> "u1"]]
                     ELSE [req EXCEPT !.pc = "ValidateToken", !.at = <<t>>,
                                      !.claims = validated.claims]
          [] req.pc = "ValidateToken" ->
                 [req EXCEPT !.pc = "AttachIdentity",
                             !.locals = [user_id |-> req.claims.user_id]]
          [] req.pc = "AttachIdentity" ->
                 [req EXCEPT !.pc = "Proceed",
                             !.handlerRuns = req.handlerRuns + 1,
                             !.response =
                                 ProfileHandler(LocalsRead(requests, r)).response]

\* one step of the handler AuthMiddleware(tm) returns, for request r, at
\* clock time t; the request is in Start when it arrives, in ExtractHeader
\* when its header was read and is not empty, in ParseBearer when
\* extractBearerToken returned its token, in ValidateToken when
\* ValidateAccessToken returned its claims, in AttachIdentity when the
\* identity is stored, in Proceed when c.Next() has run the downstream
\* handler, and in Reject when AuthErrorResponse was written
AuthMiddlewareStep(config, requests, r, t) ==
    LET req == requests[r]
    IN  CASE req.pc = "Start" ->
                 IF req.input = EmptyString
                 THEN Reject(req, "missing authorization header")
                 ELSE [req EXCEPT !.pc = "ExtractHeader"]
          [] req.pc = "ExtractHeader" ->
                 LET extracted == extractBearerToken(req.input)
                 IN  IF extracted.err # Nil
                     THEN Reject(req, "invalid authorization header format")
                     ELSE [req EXCEPT !.pc = "ParseBearer",
                                      !.token = extracted.token]
          [] req.pc = "ParseBearer" ->
                 LET validated == ValidateAccessToken(config, req.token, t)
                 IN  IF validated.err # Nil
                     THEN [Reject(req, "invalid or expired access token")
                               EXCEPT !.at = <<t>>]
                     ELSE [req EXCEPT !.pc = "ValidateToken", !.at = <<t>>,
                                      !.claims = validated.claims]
          [] req.pc = "ValidateToken" ->
                 [req EXCEPT !.pc = "AttachIdentity",
                             !.locals = [user_id |-> req.claims.user_id]]
          [] req.pc = "AttachIdentity" ->
                 [req EXCEPT !.pc = "Proceed",
                             !.handlerRuns = req.handlerRuns + 1,
                             !.response =
                                 ProfileHandler(LocalsRead(requests, r)).response]

\* one step of the handler RefreshTokenHandler returns: the binding of the
\* body, the call of ValidateRefreshToken, the call of GenerateAccessToken
\* and the writing of the pair
RefreshTokenStep(config, req, t) ==
    CASE req.pc = "Start" ->
             IF req.input = MalformedBody
             THEN [req EXCEPT !.pc = "Done",
                              !.response =
                                  ValidationErrorResponse("invalid request body")]
             ELSE [req EXCEPT !.pc = "Bound", !.token = req.input.refresh_token]
      [] req.pc = "Bound" ->
             LET validated == ValidateRefreshToken(config, req.token, t)
             IN  IF validated.err # Nil
                 THEN [req EXCEPT !.pc = "Done", !.at = <<t>>,
                                  !.response = AuthErrorResponse(
                                      "invalid or expired refresh token")]
                 ELSE [req EXCEPT !.pc = "Validated", !.at = <<t>>,
                                  !.claims = validated.claims]
      [] req.pc = "Validated" ->
             LET generated == GenerateAccessToken(config, req.claims.user_id, t,
                                                  FALSE)
             IN  [req EXCEPT !.pc = "Done", !.at = Append(req.at, t),
                             !.issued = req.issued + 1,
                             !.response =
                                 [status |-> StatusOK,
                                  body |-> [access_token |-> generated.tokenString,
                                            refresh_token |-> req.token,
                                            token_type |-> "Bearer",
                                            expires_in |->
                                                Seconds(config.ExpirationTime)]]]

\* a call of a method of the manager on its own: GenerateAccessToken(input)
\* or ValidateAccessToken(input)
ManagerCall(config, req, t) ==
    IF req.kind = "generate"
    THEN [req EXCEPT !.pc = "Done", !.at = <<t>>, !.issued = req.issued + 1,
                     !.response = GenerateAccessToken(config, req.input, t, FALSE)]
    ELSE [req EXCEPT !.pc = "Done", !.at = <<t>>,
                     !.response = ValidateAccessToken(config, req.input, t)]

\* the states a request ends in
Finished == {"Proceed", "Reject", "Done"}

InitSteps ==
    /\ now = 0
    /\ tm = StepConfig
    /\ held = EmptyString
    /\ origin = NoOrigin
    /\ res = [r \in RequestIDs |-> Idle]
    /\ server = "running"
    /\ db = {}
    /\ seen = {}
    /\ main = NotStarted

\* time passes while requests are in flight
StepTick ==
    /\ now < MaxTime
    /\ now' = now + 1
    /\ UNCHANGED <<tm, held, origin, res, server, db, seen, main>>

\* a request to the protected route arrives
ArriveProtected(r, tokenStr) ==
    /\ res[r].pc = "Idle"
    /\ \E h \in AuthHeaders(tokenStr) :
           res' = [res EXCEPT ![r] = NewRequest("protected", h)]
    /\ UNCHANGED <<now, tm, held, origin, server, db, seen, main>>

\* a request to the refresh route arrives
ArriveRefresh(r, body) ==
    /\ res[r].pc = "Idle"
    /\ res' = [res EXCEPT ![r] = NewRequest("refresh", body)]
    /\ UNCHANGED <<now, tm, held, origin, server, db, seen, main>>

\* a handler is about to call GenerateAccessToken or ValidateAccessToken
ArriveCall(r, kind, input) ==
    /\ res[r].pc = "Idle"
    /\ res' = [res EXCEPT ![r] = NewRequest(kind, input)]
    /\ UNCHANGED <<now, tm, held, origin, server, db, seen, main>>

\* the goroutine of request r runs AuthMiddleware one step further
DoAuthMiddlewareStep(r) ==
    /\ res[r].kind = "protected"
    /\ res[r].pc \notin Finished
    /\ res' = [res EXCEPT ![r] = AuthMiddlewareStep(tm, res, r, now)]
    /\ UNCHANGED <<now, tm, held, origin, server, db, seen, main>>

\* the goroutine of request r runs RefreshTokenHandler one step further
DoRefreshTokenStep(r) ==
    /\ res[r].kind = "refresh"
    /\ res[r].pc \notin Finished
    /\ res' = [res EXCEPT ![r] = RefreshTokenStep(tm, res[r], now)]
    /\ UNCHANGED <<now, tm, held, origin, server, db, seen, main>>

\* the goroutine of request r makes its call of the manager
DoManagerCall(r) ==
    /\ res[r].kind \in {"generate", "validate"}
    /\ res[r].pc \notin Finished
    /\ res' = [res EXCEPT ![r] = ManagerCall(tm, res[r], now)]
    /\ UNCHANGED <<now, tm, held, origin, server, db, seen, main>>

\* the response is sent and the context of the request is released
Release(r) ==
    /\ res[r].pc \in Finished
    /\ res' = [res EXCEPT ![r] = Idle]
    /\ UNCHANGED <<now, tm, held, origin, server, db, seen, main>>

NextSteps ==
    \/ StepTick
    \/ \E r \in RequestIDs, tokenStr \in ClientStrings : ArriveProtected(r, tokenStr)
    \/ \E r \in RequestIDs, tokenStr \in ClientStrings :
           \E body \in RefreshBodies(tokenStr) : ArriveRefresh(r, body)
    \/ \E r \in RequestIDs, u \in Users : ArriveCall(r, "generate", u)
    \/ \E r \in RequestIDs, tokenStr \in ClientStrings :
           ArriveCall(r, "validate", tokenStr)
    \/ \E r \in RequestIDs : DoAuthMiddlewareStep(r)
    \/ \E r \in RequestIDs : DoRefreshTokenStep(r)
    \/ \E r \in RequestIDs : DoManagerCall(r)
    \/ \E r \in RequestIDs : Release(r)

SpecSteps == InitSteps /\ [][NextSteps]_vars

-----------------------------------------------------------------------------
(* A session: a client signs in (or gets hold of an access token alone),    *)
(* keeps what it is given, and goes on with requests to the protected route *)
(* and to the refresh route while time passes                               *)

\* the configs a service may be started with: NewTokenManager takes any
SessionConfigs ==
    [SecretKey : {"k1"}, ExpirationTime : AccessDurations,
     RefreshDuration : RefreshDurations \cup {-2}, Issuer : Issuers]

\* what the client keeps: the fields of a TokenPair it stores
NoTokens == [AccessToken |-> EmptyString, RefreshToken |-> EmptyString]

\* the entry of seen for a call of a validator
Validation(op, tokenStr, out) == [op |-> op, token |-> tokenStr, ok |-> out.err = Nil]

InitSession ==
    /\ now = 0
    /\ tm \in SessionConfigs
    /\ held = NoTokens
    /\ origin = [kind |-> "none", userID |-> "", t0 |-> 0]
    /\ res = [op |-> "none"]
    /\ server = "running"
    /\ db = {}
    /\ seen = {}
    /\ main = NotStarted

\* signin or signup succeeds: GenerateTokenPair(userID), and the client keeps
\* the pair
SessionStart(userID) ==
    /\ origin.kind = "none"
    /\ LET out == GenerateTokenPair(tm, userID, now, FALSE, FALSE)
       IN  /\ res' = [op |-> "GenerateTokenPair", out |-> out]
           /\ held' = [AccessToken |-> out.pair.AccessToken,
                       RefreshToken |-> out.pair.RefreshToken]
    /\ origin' = [kind |-> "pair", userID |-> userID, t0 |-> now]
    /\ UNCHANGED <<now, tm, server, db, seen, main>>

\* a client gets hold of an access token of a user and of nothing else
AccessTokenOnly(userID) ==
    /\ origin.kind = "none"
    /\ LET out == GenerateAccessToken(tm, userID, now, FALSE)
       IN  /\ res' = [op |-> "GenerateAccessToken", out |-> out]
           /\ held' = [AccessToken |-> out.tokenString, RefreshToken |-> EmptyString]
    /\ origin' = [kind |-> "access", userID |-> userID, t0 |-> now]
    /\ UNCHANGED <<now, tm, server, db, seen, main>>

\* a request to the refresh route with one of the strings the client keeps as
\* its refresh_token; the client stores the pair of a 200 response, or goes
\* on with the access token it has
SessionRefresh(field, signingFails, store) ==
    /\ held[field] # EmptyString
    /\ LET body == [refresh_token |-> held[field]]
           out == RefreshTokenHandler(tm, body, now, signingFails)
       IN  /\ res' = [op |-> "RefreshTokenHandler", body |-> body,
                      signingFails |-> signingFails, out |-> out]
           /\ seen' = seen \cup
                  {Validation("ValidateRefreshToken", held[field],
                              ValidateRefreshToken(tm, held[field], now))}
           /\ IF out.response.status = StatusOK /\ store
              THEN held' = [AccessToken |-> out.response.body.access_token,
                            RefreshToken |-> out.response.body.refresh_token]
              ELSE UNCHANGED held
    /\ UNCHANGED <<now, tm, origin, server, db, main>>

\* a request to the protected route with the access token the client keeps
SessionRequest ==
    /\ held.AccessToken # EmptyString
    /\ LET authHeader == Bearer \o <<Space>> \o held.AccessToken
       IN  res' = [op |-> "Protected", authHeader |-> authHeader,
                   out |-> Protected(tm, authHeader, now)]
    /\ seen' = seen \cup
           {Validation("ValidateAccessToken", held.AccessToken,
                       ValidateAccessToken(tm, held.AccessToken, now))}
    /\ UNCHANGED <<now, tm, held, origin, server, db, main>>

NextSession ==
    \/ Tick
    \/ \E u \in Users : SessionStart(u)
    \/ \E u \in Users : AccessTokenOnly(u)
    \/ \E field \in {"AccessToken", "RefreshToken"}, f \in BOOLEAN, store \in BOOLEAN :
           SessionRefresh(field, f, store)
    \/ SessionRequest

SpecSession == InitSession /\ [][NextSession]_vars

-----------------------------------------------------------------------------
(* Retries: a client holds one string and submits it to the validators of   *)
(* one manager again and again while time passes                            *)

\* the strings a client may hold at time 0: the tokens the manager has just
\* issued, the tokens an instance of the service with the same config has
\* issued whose clock is a second ahead, an access token signed with another
\* key, and a string that is no token
RetryStrings(config) ==
    {GenerateAccessToken(config, "u1", 0, FALSE).tokenString,
     GenerateRefreshToken(config, "u1", 0, FALSE).tokenString,
     GenerateAccessToken(config, "u1", TimePrecision, FALSE).tokenString,
     GenerateRefreshToken(config, "u1", TimePrecision, FALSE).tokenString,
     SignedString("HS256", AccessClaims(config, "u1", 0), "k2", FALSE).tokenString,
     S("invalid-token")}

\* the entry of seen for a call of a validator at clock time t
ValidationAt(op, tokenStr, out, t) ==
    [op |-> op, token |-> tokenStr, ok |-> out.err = Nil, at |-> t]

InitRetry ==
    /\ now = 0
    /\ tm \in [SecretKey : {"k1"}, ExpirationTime : AccessDurations,
               RefreshDuration : RefreshDurations, Issuer : Issuers]
    /\ held \in RetryStrings(tm)
    /\ origin = [kind |-> "retry", sameManager |-> FALSE, userID |-> "u1"]
    /\ res = [op |-> "none"]
    /\ server = "running"
    /\ db = {}
    /\ seen = {}
    /\ main = NotStarted

\* a call of tm.ValidateAccessToken(held)
RetryValidateAccessToken ==
    /\ LET out == ValidateAccessToken(tm, held, now)
       IN  /\ res' = [op |-> "ValidateAccessToken", out |-> out]
           /\ seen' = seen \cup {ValidationAt("ValidateAccessToken", held, out, now)}
    /\ UNCHANGED <<now, tm, held, origin, server, db, main>>

\* a call of tm.ValidateRefreshToken(held)
RetryValidateRefreshToken ==
    /\ LET out == ValidateRefreshToken(tm, held, now)
       IN  /\ res' = [op |-> "ValidateRefreshToken", out |-> out]
           /\ seen' = seen \cup {ValidationAt("ValidateRefreshToken", held, out, now)}
    /\ UNCHANGED <<now, tm, held, origin, server, db, main>>

NextRetry ==
    \/ Tick
    \/ RetryValidateAccessToken
    \/ RetryValidateRefreshToken

SpecRetry == InitRetry /\ [][NextRetry]_vars

-----------------------------------------------------------------------------
(* func main of cmd/server: the main goroutine, the goroutine that runs     *)
(* app.Listen, the goroutine that runs app.Shutdown, the 10-second context  *)
(* and the signals the process is sent.  The variable main holds all of it. *)

\* context.WithTimeout(context.Background(), 10*time.Second), in seconds
ShutdownTimeout == 10

\* srvErr := make(chan error, 1) and sigCh := make(chan os.Signal, 1)
SrvErrCapacity == 1
SigChCapacity == 1

\* os.Interrupt and syscall.SIGTERM
Signals == {"interrupt", "terminated"}

\* main and the process before the line "srvErr := make(chan error, 1)".
\* first is a history field: what happened first, a signal sent to the process
\* or app.Listen returning an error.
MainStart ==
    [pc |-> "Start", listen |-> "not started", result |-> "none",
     srvErr |-> << >>, sigCh |-> << >>, shutdown |-> "not called",
     done |-> FALSE, timer |-> 0, log |-> {}, exit |-> -1,
     first |-> "none"]

\* the process is running
Alive == main.pc \in {"Start", "Notify", "Select", "Wait"}

InitMain ==
    /\ now = 0
    /\ tm = StepConfig
    /\ held = EmptyString
    /\ origin = [kind |-> "none", userID |-> "", t0 |-> 0]
    /\ res = [op |-> "none"]
    /\ server = "running"
    /\ db = {}
    /\ seen = {}
    /\ main = MainStart

\* srvErr := make(chan error, 1); go func() { srvErr <- app.Listen(addr) }()
MainStartListen ==
    /\ main.pc = "Start"
    /\ main' = [main EXCEPT !.pc = "Notify", !.listen = "Listening"]
    /\ UNCHANGED <<now, tm, held, origin, res, server, db, seen>>

\* sigCh := make(chan os.Signal, 1); signal.Notify(sigCh, os.Interrupt, syscall.SIGTERM)
MainNotify ==
    /\ main.pc = "Notify"
    /\ main' = [main EXCEPT !.pc = "Select"]
    /\ UNCHANGED <<now, tm, held, origin, res, server, db, seen>>

\* case sig := <-sigCh of the outer select, up to the inner select: the log
\* line, the context with its timer, the channel done and the goroutine that
\* calls app.Shutdown
SignalCase(m) ==
    [m EXCEPT !.pc = "Wait", !.sigCh = Tail(m.sigCh),
              !.log = m.log \cup {"shutdown signal received"},
              !.timer = 0, !.done = FALSE, !.shutdown = "running"]

\* case err := <-srvErr of the outer select
SrvErrCase(m) ==
    IF Head(m.srvErr) # "nil"
    THEN [m EXCEPT !.pc = "Exited", !.srvErr = Tail(m.srvErr),
                   !.log = m.log \cup {"server listen error"}, !.exit = 1]
    ELSE [m EXCEPT !.pc = "Returned", !.srvErr = Tail(m.srvErr), !.exit = 0]

\* the outer select: it waits until a case can proceed, and when both can it
\* takes either
MainSelect ==
    /\ main.pc = "Select"
    /\ \/ /\ main.sigCh # << >>
          /\ main' = SignalCase(main)
       \/ /\ main.srvErr # << >>
          /\ main' = SrvErrCase(main)
    /\ UNCHANGED <<now, tm, held, origin, res, server, db, seen>>

\* the inner select with the case of ctx.Done() left out
MainWait_NoTimeout ==
    /\ main.pc = "Wait"
    /\ main.done
    /\ main' = [main EXCEPT !.pc = "Returned", !.exit = 0,
                            !.log = main.log \cup {"server stopped"}]
    /\ UNCHANGED <<now, tm, held, origin, res, server, db, seen>>

\* the inner select: case <-done and case <-ctx.Done(); main returns after it
MainWait ==
    /\ main.pc = "Wait"
    /\ \/ /\ main.done
          /\ main' = [main EXCEPT !.pc = "Returned", !.exit = 0,
                                  !.log = main.log \cup {"server stopped"}]
       \/ /\ main.timer = ShutdownTimeout
          /\ main' = [main EXCEPT !.pc = "Returned", !.exit = 0,
                                  !.log = main.log \cup {"graceful shutdown timed out"}]
    /\ UNCHANGED <<now, tm, held, origin, res, server, db, seen>>

\* app.Listen(addr) returns: with an error at any time, with nil once
\* app.Shutdown has been called
ListenReturns(result) ==
    /\ Alive
    /\ main.listen = "Listening"
    /\ result = "nil" => main.shutdown # "not called"
    /\ main' = [main EXCEPT !.listen = "Sending", !.result = result,
                            !.first = IF main.first = "none" /\ result # "nil"
                                      THEN "listen error" ELSE main.first]
    /\ UNCHANGED <<now, tm, held, origin, res, server, db, seen>>

\* srvErr <- (the result of app.Listen): the send proceeds when the buffer of
\* srvErr has room
ListenSend ==
    /\ Alive
    /\ main.listen = "Sending"
    /\ Len(main.srvErr) < SrvErrCapacity
    /\ main' = [main EXCEPT !.listen = "Done",
                            !.srvErr = Append(main.srvErr, main.result)]
    /\ UNCHANGED <<now, tm, held, origin, res, server, db, seen>>

\* app.Shutdown() returns, with or without an error, and the goroutine closes
\* done; nothing makes it return
ShutdownReturns(failed) ==
    /\ Alive
    /\ main.shutdown = "running"
    /\ main' = [main EXCEPT !.shutdown = "returned", !.done = TRUE,
                            !.log = IF failed
                                    THEN main.log \cup {"error during shutdown"}
                                    ELSE main.log]
    /\ UNCHANGED <<now, tm, held, origin, res, server, db, seen>>

\* a second of the context's 10 seconds passes
TimerTick ==
    /\ main.pc = "Wait"
    /\ main.timer < ShutdownTimeout
    /\ main' = [main EXCEPT !.timer = main.timer + 1]
    /\ UNCHANGED <<now, tm, held, origin, res, server, db, seen>>

\* the process is sent SIGINT or SIGTERM: before signal.Notify the signal ends
\* the process (the default of the Go runtime); after it package signal sends
\* on sigCh without blocking, so the signal is dropped when the buffer is full
SignalArrives(sig) ==
    /\ Alive
    /\ main' = [IF main.pc \in {"Start", "Notify"}
                THEN [main EXCEPT !.pc = "Killed"]
                ELSE IF Len(main.sigCh) < SigChCapacity
                     THEN [main EXCEPT !.sigCh = Append(main.sigCh, sig)]
                     ELSE main
                EXCEPT !.first = IF main.first = "none" THEN "signal" ELSE main.first]
    /\ UNCHANGED <<now, tm, held, origin, res, server, db, seen>>

NextMain ==
    \/ MainStartListen
    \/ MainNotify
    \/ MainSelect
    \/ MainWait
    \/ \E result \in {"nil", "listen tcp: address already in use"} : ListenReturns(result)
    \/ ListenSend
    \/ \E failed \in BOOLEAN : ShutdownReturns(failed)
    \/ TimerTick
    \/ \E sig \in Signals : SignalArrives(sig)

\* the goroutines are scheduled and time passes; nothing makes app.Listen or
\* app.Shutdown return or a signal arrive
SpecMain ==
    /\ InitMain
    /\ [][NextMain]_vars
    /\ WF_vars(MainStartListen)
    /\ WF_vars(MainNotify)
    /\ WF_vars(MainSelect)
    /\ WF_vars(MainWait)
    /\ WF_vars(ListenSend)
    /\ WF_vars(TimerTick)


-----------------------------------------------------------------------------
(* Signin (internal/domain/authentication/signin) and, with it, signup on   *)
(* one users table                                                          *)

\* hashpassword.CheckPassword: the Argon2id hash of password with the fixed
\* salt, compared with hashedPassword
CheckPassword(password, hashedPassword) ==
    [argon2 |-> password, salt |-> "salt"] = hashedPassword

\* SigninRepository.FindUser: the row of the active user with the email;
\* (nil, nil) when the query has no row
FindUser(rows, email, dbFails) ==
    IF email = ""
    THEN [user |-> NoUser, err |-> "email cannot be nil"]
    ELSE IF dbFails
    THEN [user |-> NoUser, err |-> "query failed"]
    ELSE LET found == {row \in rows : row.IsActive /\ row.Email = email}
         IN  IF found = {}
             THEN [user |-> NoUser, err |-> Nil]
             ELSE [user |-> CHOOSE row \in found : TRUE, err |-> Nil]

\* GenerateTokenPair was not reached
NotCalled == [called |-> FALSE]

\* the outcome of LoginUser or of a handler: what it returns, whether it
\* panicked instead, and what its call of GenerateTokenPair returned
Outcome(response, err, panic, generated) ==
    [response |-> response, err |-> err, panic |-> panic, generated |-> generated]

\* LoginUser without the call of CheckPassword
LoginUser_NoCheckPassword(config, rows, req, dbFails, failing, t) ==
    LET found == FindUser(rows, req.Email, dbFails)
    IN  IF found.err # Nil
        THEN Outcome(NoUser, "failed to login user", FALSE, NotCalled)
        ELSE IF found.user = NoUser
        THEN Outcome(NoUser, Nil, TRUE, NotCalled)
        ELSE LET generated == GenerateTokenPair(config, found.user.ID, t,
                                                failing = "access",
                                                failing = "refresh")
             IN  IF generated.err # Nil
                 THEN Outcome(NoUser, "failed to generate tokens", FALSE, generated)
                 ELSE Outcome([User |-> found.user,
                               AccessToken |-> generated.pair.AccessToken,
                               RefreshToken |-> generated.pair.RefreshToken,
                               TokenType |-> generated.pair.TokenType,
                               ExpiresIn |-> generated.pair.ExpiresIn],
                              Nil, FALSE, generated)

\* SigninService.LoginUser at clock time t.  When FindUser returns (nil, nil)
\* the read of user.Password is a nil pointer dereference: the call panics.
LoginUser(config, rows, req, dbFails, failing, t) ==
    LET found == FindUser(rows, req.Email, dbFails)
    IN  IF found.err # Nil
        THEN Outcome(NoUser, "failed to login user", FALSE, NotCalled)
        ELSE IF found.user = NoUser
        THEN Outcome(NoUser, Nil, TRUE, NotCalled)
        ELSE IF ~CheckPassword(req.Password, found.user.Password)
        THEN Outcome(NoUser,
                     "login failed please recheck the username and password and try again",
                     FALSE, NotCalled)
        ELSE LET generated == GenerateTokenPair(config, found.user.ID, t,
                                                failing = "access",
                                                failing = "refresh")
             IN  IF generated.err # Nil
                 THEN Outcome(NoUser, "failed to generate tokens", FALSE, generated)
                 ELSE Outcome([User |-> found.user,
                               AccessToken |-> generated.pair.AccessToken,
                               RefreshToken |-> generated.pair.RefreshToken,
                               TokenType |-> generated.pair.TokenType,
                               ExpiresIn |-> generated.pair.ExpiresIn],
                              Nil, FALSE, generated)

\* ValidateSigninRequest: validate.Struct(req) on SigninRequest, whose fields
\* carry no validate tag, reports nothing
ValidateSigninRequest(req) == << >>

\* the handler SigninHandler(db, cfg) returns, on a request whose body binds
\* to req
SigninHandler(config, rows, req, dbFails, failing, t) ==
    LET validationErrors == ValidateSigninRequest(req)
    IN  IF Len(validationErrors) > 0
        THEN Returns([status |-> StatusBadRequest,
                      body |-> [error |-> "Validation failed",
                                errors |-> validationErrors]],
                     NoError)
        ELSE LET login == LoginUser(config, rows, req, dbFails, failing, t)
             IN  IF login.panic
                 THEN Panics(DefaultResponse)
                 ELSE IF login.err # Nil
                 THEN Returns([status |-> StatusBadRequest,
                               body |-> [error |-> login.err]],
                              NoError)
                 ELSE Returns([status |-> StatusOK,
                               body |-> [message |-> "User logged in successfully",
                                         user |-> login.response.User.ID,
                                         access_token |-> login.response.AccessToken,
                                         refresh_token |-> login.response.RefreshToken,
                                         token_type |-> login.response.TokenType,
                                         expires_in |-> login.response.ExpiresIn]],
                              NoError)

\* two passwords ValidatePasswordStrength accepts
StrongPasswords ==
    {<<"A", "a", "1", "!", "a", "a", "a", "a">>,
     <<"B", "b", "2", ".", "b", "b", "b", "b">>}

\* the accounts of the model: an email with its username
Accounts ==
    {[Email |-> "user@example.com", Username |-> "john_doe"],
     [Email |-> "jane@example.com", Username |-> "jane_doe"]}

\* a row of a user who was deactivated
InactiveUser ==
    [ID |-> "u0", Email |-> "jane@example.com",
     Password |-> [argon2 |-> <<"A", "a", "1", "!", "a", "a", "a", "a">>,
                   salt |-> "salt"],
     FullName |-> "Jane Doe", Username |-> "jane_doe", IsActive |-> FALSE]

\* the service with the config of the tests and a users table that is empty
\* or holds a deactivated user
InitSignin ==
    /\ now = 0
    /\ tm = [SecretKey |-> "k1", ExpirationTime |-> 2, RefreshDuration |-> 3,
             Issuer |-> GoServiceApi]
    /\ held = NoTokens
    /\ origin = [kind |-> "signin", sameManager |-> FALSE, userID |-> ""]
    /\ res = [op |-> "none"]
    /\ server = "running"
    /\ db \in {{}, {InactiveUser}}
    /\ seen = {}
    /\ main = NotStarted

\* a call of service.RegisterUser(ctx, &req)
SigninRegisterUser(req, id, dbFails, failing) ==
    /\ LET out == RegisterUser(tm, db, req, id, dbFails, failing, now)
       IN  /\ res' = [op |-> "RegisterUser", req |-> req, rows |-> db,
                      dbFails |-> dbFails, out |-> out]
           /\ db' = out.rows
    /\ UNCHANGED <<now, tm, held, origin, server, seen, main>>

\* a request to the signin route, under ErrorHandler(), whose body binds to req
SigninRequest(req, dbFails, failing) ==
    /\ LET handler == SigninHandler(tm, db, req, dbFails, failing, now)
       IN  res' = [op |-> "SigninHandler", req |-> req,
                   found |-> FindUser(db, req.Email, dbFails),
                   login |-> LoginUser(tm, db, req, dbFails, failing, now),
                   handler |-> handler, out |-> ErrorHandler(handler)]
    /\ UNCHANGED <<now, tm, held, origin, server, db, seen, main>>

NextSignin ==
    \/ Tick
    \/ \E account \in Accounts, password \in StrongPasswords \cup {<<"a">>},
          id \in Users, dbFails \in BOOLEAN, failing \in {"none", "access", "refresh"} :
           SigninRegisterUser([Email |-> account.Email, Password |-> password,
                               FullName |-> "John Doe",
                               Username |-> account.Username],
                              id, dbFails, failing)
    \/ \E email \in {account.Email : account \in Accounts} \cup {""},
          password \in StrongPasswords \cup {<< >>},
          dbFails \in BOOLEAN, failing \in {"none", "access", "refresh"} :
           SigninRequest([Email |-> email, Password |-> password], dbFails, failing)

SpecSignin == InitSignin /\ [][NextSignin]_vars

-----------------------------------------------------------------------------
(* Properties *)

\* the TokenConfig invariant of the data model
ValidConfig(config) ==
    /\ config.SecretKey # ""
    /\ config.Issuer # EmptyString
    /\ config.ExpirationTime > 0
    /\ config.RefreshDuration > 0

HeldIsJWT == Len(held) = 1 /\ IsJWT(held[1])

HeldToken == held[1].jwt

Contains(aud, a) == \E i \in DOMAIN aud : aud[i] = a

BearerHeader(tokenStr) == Bearer \o <<Space>> \o tokenStr

\* held was issued as a token of this kind by the manager in use
IssuedHere(kind) == origin.kind = kind /\ origin.sameManager /\ tm # NoManager

\* C1: for a manager with a valid config, a token from GenerateAccessToken(U)
\* validated by ValidateAccessToken of the same manager before its expiry is
\* accepted with UserID = U, and likewise GenerateRefreshToken(U) with
\* ValidateRefreshToken.
C1_RoundTrip ==
    /\ (/\ res.op = "ValidateAccessToken"
        /\ IssuedHere("access")
        /\ ValidConfig(tm)
        /\ now < HeldToken.claims.exp)
       => (res.out.err = Nil /\ res.out.claims.user_id = origin.userID)
    /\ (/\ res.op = "ValidateRefreshToken"
        /\ IssuedHere("refresh")
        /\ ValidConfig(tm)
        /\ now < HeldToken.claims.exp)
       => (res.out.err = Nil /\ res.out.claims.user_id = origin.userID)

\* C2: a token issued by GenerateRefreshToken is rejected by
\* ValidateAccessToken and a token issued by GenerateAccessToken is rejected
\* by ValidateRefreshToken, at every time and for every manager.
C2_CrossUseFails ==
    /\ (res.op = "ValidateAccessToken" /\ origin.kind = "refresh")
       => res.out.err # Nil
    /\ (res.op = "ValidateRefreshToken" /\ origin.kind = "access")
       => res.out.err # Nil

\* C2 witness: an unexpired refresh token of the manager in use, whose issuer
\* is the one the audience literals are written for, is rejected by
\* ValidateAccessToken for its audience alone.
C2_Witness ==
    /\ res.op = "ValidateAccessToken"
    /\ IssuedHere("refresh")
    /\ tm.Issuer = GoServiceApi
    /\ now < HeldToken.claims.exp
    /\ res.out.err = "invalid token audience"

\* C3: a correctly signed, unexpired token with the configured issuer I is
\* accepted by ValidateAccessToken only if its audience contains I-users and
\* by ValidateRefreshToken only if it contains I-refresh.
C3_AudienceTagOfIssuer ==
    /\ (res.op = "ValidateAccessToken" /\ res.out.err = Nil)
       => Contains(res.out.claims.aud, tm.Issuer \o S("-users"))
    /\ (res.op = "ValidateRefreshToken" /\ res.out.err = Nil)
       => Contains(res.out.claims.aud, tm.Issuer \o S("-refresh"))

\* C4: every token whose header declares another algorithm than HS256 is
\* rejected by ValidateAccessToken and by ValidateRefreshToken.
C4_OnlyHS256 ==
    (/\ res.op \in {"ValidateAccessToken", "ValidateRefreshToken"}
     /\ HeldIsJWT
     /\ HeldToken.alg # "HS256")
    => res.out.err # Nil

\* C5: a token a manager signed with secret K1 is rejected by both validators
\* of a manager whose secret is not K1, and a request that carries it as its
\* bearer token ends in 401.
C5_WrongSecretRejected ==
    (/\ origin.kind \in {"access", "refresh"}
     /\ tm # NoManager
     /\ HeldToken.sig.key # tm.SecretKey)
    => /\ res.op \in {"ValidateAccessToken", "ValidateRefreshToken"}
          => res.out.err # Nil
       /\ (res.op = "AuthMiddleware" /\ res.authHeader = BearerHeader(held))
          => (res.out.response.status = StatusUnauthorized /\ ~res.out.next)

\* C5 witness: a request carries an unexpired access token whose issuer and
\* audience are those the manager in use expects and whose key is another
\* one, and is answered 401.
C5_Witness ==
    /\ res.op = "AuthMiddleware"
    /\ res.authHeader = BearerHeader(held)
    /\ origin.kind = "access"
    /\ HeldToken.sig.key # tm.SecretKey
    /\ HeldToken.claims.iss = tm.Issuer
    /\ tm.Issuer = GoServiceApi
    /\ now < HeldToken.claims.exp
    /\ res.out.response.status = StatusUnauthorized

\* C6: validation at a clock time t >= expires-at fails; validation of an
\* issued token by the issuing manager at a time t with
\* issued-at <= t < expires-at succeeds; the middleware answers 401 to an
\* expired token.
C6_ExpiryEnforced ==
    /\ (/\ res.op \in {"ValidateAccessToken", "ValidateRefreshToken"}
        /\ HeldIsJWT
        /\ now >= HeldToken.claims.exp)
       => res.out.err # Nil
    /\ (/\ res.op = "AuthMiddleware"
        /\ res.authHeader = BearerHeader(held)
        /\ HeldIsJWT
        /\ now >= HeldToken.claims.exp)
       => res.out.response.status = StatusUnauthorized
    /\ (/\ res.op = "ValidateAccessToken"
        /\ IssuedHere("access")
        /\ HeldToken.claims.iat <= now
        /\ now < HeldToken.claims.exp)
       => res.out.err = Nil
    /\ (/\ res.op = "ValidateRefreshToken"
        /\ IssuedHere("refresh")
        /\ HeldToken.claims.iat <= now
        /\ now < HeldToken.claims.exp)
       => res.out.err = Nil

\* the claims of the token a string encodes
ClaimsOf(tokenStr) == tokenStr[1].jwt.claims

\* C7 as stated: a token issued at time now carries user_id = U,
\* issued-at = now, not-before = issued-at, expires-at = issued-at + the
\* configured duration of its kind, the configured issuer and the one audience
\* of its kind.
C7_ClaimsAsStated ==
    /\ (res.op = "GenerateAccessToken" /\ res.out.err = Nil)
       => ClaimsOf(res.out.tokenString) =
              [user_id |-> origin.userID, iat |-> now, nbf |-> now,
               exp |-> now + tm.ExpirationTime, iss |-> tm.Issuer,
               aud |-> <<tm.Issuer \o S("-users")>>]
    /\ (res.op = "GenerateRefreshToken" /\ res.out.err = Nil)
       => ClaimsOf(res.out.tokenString) =
              [user_id |-> origin.userID, iat |-> now, nbf |-> now,
               exp |-> now + tm.RefreshDuration, iss |-> tm.Issuer,
               aud |-> <<tm.Issuer \o S("-refresh")>>]

\* whole seconds of a clock time
WholeSeconds(t) == (t \div TimePrecision) * TimePrecision

\* the claims an issued token of one kind has to carry
ExpectedClaims(claims, userID, duration, suffix) ==
    /\ claims.user_id = userID
    /\ claims.iat = WholeSeconds(now)
    /\ claims.nbf = claims.iat
    /\ claims.exp = WholeSeconds(now + duration)
    /\ (duration % TimePrecision = 0 => claims.exp = claims.iat + duration)
    /\ claims.iss = tm.Issuer
    /\ claims.aud = <<tm.Issuer \o S(suffix)>>

\* C7 (amended): a token issued at time now carries user_id = U, issued-at =
\* now in whole seconds, not-before = issued-at, expires-at = (now + the
\* configured duration of its kind) in whole seconds, which is issued-at + the
\* duration when the duration is a whole number of seconds, the configured
\* issuer and the one audience of its kind; so do both tokens of a pair.
C7_Claims ==
    /\ (res.op = "GenerateAccessToken" /\ res.out.err = Nil)
       => ExpectedClaims(ClaimsOf(res.out.tokenString), origin.userID,
                         tm.ExpirationTime, "-users")
    /\ (res.op = "GenerateRefreshToken" /\ res.out.err = Nil)
       => ExpectedClaims(ClaimsOf(res.out.tokenString), origin.userID,
                         tm.RefreshDuration, "-refresh")
    /\ (res.op = "GenerateTokenPair" /\ res.out.err = Nil)
       => /\ ExpectedClaims(ClaimsOf(res.out.pair.AccessToken), origin.userID,
                            tm.ExpirationTime, "-users")
          /\ ExpectedClaims(ClaimsOf(res.out.pair.RefreshToken), origin.userID,
                            tm.RefreshDuration, "-refresh")

\* C7 witness: an access token is issued between two whole seconds with a
\* lifetime that is not a whole number of seconds.
C7_Witness ==
    /\ res.op = "GenerateAccessToken"
    /\ res.out.err = Nil
    /\ now % TimePrecision # 0
    /\ tm.ExpirationTime % TimePrecision # 0
    /\ tm.Issuer = S("svc")
    /\ ClaimsOf(res.out.tokenString).aud = <<S("svc") \o S("-users")>>

\* C8: for a manager with a valid config whose durations are a second or
\* more, GenerateTokenPair fails and returns no pair, or returns a pair with
\* TokenType "Bearer", ExpiresIn = the access duration in seconds, an access
\* token that ValidateAccessToken accepts with subject U and a refresh token
\* that ValidateRefreshToken accepts with subject U.
C8_PairUsable ==
    (/\ res.op = "GenerateTokenPair"
     /\ ValidConfig(tm)
     /\ tm.ExpirationTime >= TimePrecision
     /\ tm.RefreshDuration >= TimePrecision)
    => \/ res.out.err # Nil /\ res.out.pair = NoPair
       \/ /\ res.out.err = Nil
          /\ res.out.pair.TokenType = "Bearer"
          /\ res.out.pair.ExpiresIn = Seconds(tm.ExpirationTime)
          /\ LET access == ValidateAccessToken(tm, res.out.pair.AccessToken, now)
                 refresh == ValidateRefreshToken(tm, res.out.pair.RefreshToken, now)
             IN  /\ access.err = Nil
                 /\ access.claims.user_id = origin.userID
                 /\ refresh.err = Nil
                 /\ refresh.claims.user_id = origin.userID

\* C9: every manager that generates or validates a token holds a config with
\* a non-empty secret, a non-empty issuer and positive durations.
C9_ConfigInvariant ==
    res.op \in {"GenerateAccessToken", "GenerateRefreshToken", "GenerateTokenPair",
                "ValidateAccessToken", "ValidateRefreshToken", "AuthMiddleware"}
    => ValidConfig(tm)

\* "Bearer", one space, and a remainder that is not empty
BearerForm(h) ==
    /\ Len(h) >= 3
    /\ h[1] = [str |-> "Bearer"]
    /\ h[2] = Space

\* C10: extractBearerToken succeeds exactly on "Bearer" + one space + a
\* non-empty remainder, the scheme word compared case-sensitively, and then
\* returns the remainder unchanged; it fails on "", "Bearer", "Bearer ",
\* "Basic x" and on every header without a space.
C10_ExtractBearerToken ==
    res.op = "extractBearerToken"
    => /\ res.out.err = Nil <=> BearerForm(held)
       /\ res.out.err = Nil => res.out.token = SubSeq(held, 3, Len(held))
       /\ res.out.err # Nil => res.out.token = EmptyString
       /\ held \in {EmptyString, Bearer, Bearer \o <<Space>>,
                    S("Basic") \o <<Space>> \o S("x")}
          => res.out.err # Nil
       /\ (\A i \in DOMAIN held : held[i] # Space) => res.out.err # Nil

\* C10 witness: a header whose remainder itself contains a space is accepted
\* and the remainder comes back whole.
C10_Witness ==
    /\ res.op = "extractBearerToken"
    /\ held = Bearer \o <<Space>> \o S("x") \o <<Space>>
    /\ res.out.err = Nil
    /\ res.out.token = S("x") \o <<Space>>

\* a space or a tab
IsSpace(item) == item \in {Space, [str |-> "\t"]}

\* the whitespace-separated tokens of a string
RECURSIVE Fields(_)
Fields(s) ==
    IF s = EmptyString THEN <<>>
    ELSE IF IsSpace(Head(s)) THEN Fields(Tail(s))
    ELSE LET rest == Fields(Tail(s))
         IN  IF Len(s) > 1 /\ ~IsSpace(s[2])
             THEN <<(<<Head(s)>> \o Head(rest))>> \o Tail(rest)
             ELSE <<(<<Head(s)>>)>> \o rest

\* exactly two whitespace-separated tokens, the first literally "Bearer"
TwoTokenForm(h) == Len(Fields(h)) = 2 /\ Fields(h)[1] = Bearer

\* the request got as far as the call of ValidateAccessToken
ReachedValidateToken(out) ==
    \/ out.next
    \/ out.response.body.message = "invalid or expired access token"

\* C11: AuthMiddleware answers 401 with the reason "invalid authorization
\* header format" to every non-empty Authorization value that is not exactly
\* two whitespace-separated tokens with the first literally "Bearer", and a
\* value of three or more tokens never reaches the call of
\* ValidateAccessToken.
C11_HeaderFormat ==
    (/\ res.op = "AuthMiddleware"
     /\ res.authHeader # EmptyString
     /\ ~TwoTokenForm(res.authHeader))
    => /\ res.out.response =
              AuthErrorResponse("invalid authorization header format")
       /\ ~res.out.next
       /\ Len(Fields(res.authHeader)) >= 3 => ~ReachedValidateToken(res.out)

\* the body of an error response
ErrorBody(slug, msg, code) == [error |-> slug, message |-> msg, code |-> code]

\* C12: a request without an Authorization header, or with an empty one, is
\* answered by AuthMiddleware with HTTP 401, slug "unauthorized", message
\* "missing authorization header" and code 401, the downstream handler does
\* not run, and the response is the same at the end of the chain that
\* ErrorHandler wraps.
C12_MissingHeader ==
    (res.op = "Protected" /\ res.authHeader = EmptyString)
    => /\ res.out.auth.response =
              [status |-> 401,
               body |-> ErrorBody("unauthorized", "missing authorization header", 401)]
       /\ ~res.out.auth.next
       /\ ~res.out.handlerRan
       /\ res.out.end.response = res.out.auth.response
       /\ res.out.end.err = NoError
       /\ ~res.out.end.panic

\* C12 witness: a client that holds an access token the manager in use would
\* accept sends a request without the header and is answered 401.
C12_Witness ==
    /\ res.op = "Protected"
    /\ res.authHeader = EmptyString
    /\ IssuedHere("access")
    /\ ValidateAccessToken(tm, held, now).err = Nil
    /\ res.out.end.response.status = 401

\* C13: a request with the header "Bearer " + an unexpired token of
\* GenerateAccessToken(U) of the manager in use passes AuthMiddleware, the
\* downstream handler runs, and GetUserIDFromContext in it returns U, whatever
\* requests came before.
C13_IdentityAttached ==
    (/\ res.op = "Protected"
     /\ res.authHeader = BearerHeader(held)
     /\ IssuedHere("access")
     /\ now < HeldToken.claims.exp)
    => /\ res.out.auth.next
       /\ res.out.handlerRan
       /\ GetUserIDFromContext(res.out.auth.locals)
              = [userID |-> origin.userID, err |-> Nil, panic |-> FALSE]
       /\ res.out.end.response =
              [status |-> 200, body |-> [user_id |-> origin.userID]]

\* the bearer token of a header, when it has one
BearerTokenOf(authHeader) == extractBearerToken(authHeader)

\* C14: every request whose bearer token fails ValidateAccessToken gets the
\* same response, 401 "unauthorized" "invalid or expired access token",
\* whatever the cause of the failure, and every refresh request whose token
\* fails ValidateRefreshToken gets the same response, 401 "unauthorized"
\* "invalid or expired refresh token".
C14_UniformFailure ==
    /\ (/\ res.op = "Protected"
        /\ res.authHeader # EmptyString
        /\ BearerTokenOf(res.authHeader).err = Nil
        /\ ValidateAccessToken(tm, BearerTokenOf(res.authHeader).token, now).err # Nil)
       => /\ res.out.auth.response =
                 [status |-> 401,
                  body |-> ErrorBody("unauthorized",
                                     "invalid or expired access token", 401)]
          /\ res.out.end.response = res.out.auth.response
    /\ (/\ res.op = "RefreshTokenHandler"
        /\ res.body # MalformedBody
        /\ ValidateRefreshToken(tm, res.body.refresh_token, now).err # Nil)
       => res.out.response =
              [status |-> 401,
               body |-> ErrorBody("unauthorized",
                                  "invalid or expired refresh token", 401)]

\* C14 witness: an unexpired, correctly signed access token whose issuer is
\* not the one of the manager in use is answered like every other failure.
C14_Witness ==
    /\ res.op = "Protected"
    /\ res.authHeader = BearerHeader(held)
    /\ ValidateAccessToken(tm, held, now).err = "invalid token issuer"
    /\ res.out.end.response.body.message = "invalid or expired access token"

\* C15: GetUserIDFromContext never panics; it returns the error "user_id not
\* found in context" when nothing is stored under user_id, the other error
\* "invalid user_id type in context" when the stored value is no UUID, and
\* the stored UUID with no error otherwise.
C15_GetUserIDFromContext ==
    res.op = "GetUserIDFromContext"
    => /\ ~res.out.panic
       /\ server = "running"
       /\ res.locals = NoLocals
          => res.out.err = "user_id not found in context"
       /\ (res.locals # NoLocals /\ res.locals.user_id \notin Users)
          => res.out.err = "invalid user_id type in context"
       /\ (res.locals # NoLocals /\ res.locals.user_id \in Users)
          => (res.out.err = Nil /\ res.out.userID = res.locals.user_id)

\* C15 witness: a string is stored under user_id and the accessor returns
\* the type error.
C15_Witness ==
    /\ res.op = "GetUserIDFromContext"
    /\ res.locals = [user_id |-> "not-a-uuid"]
    /\ res.out.err = "invalid user_id type in context"
    /\ ~res.out.panic

\* C16: a refresh request that carries an unexpired token of
\* GenerateRefreshToken(U) of the manager in use, whose config is valid with
\* durations of a second or more, is answered 200 (when the signing does not
\* fail) with a new access token that ValidateAccessToken accepts with
\* subject U, the submitted refresh token, token_type "Bearer" and expires_in
\* = the access duration in seconds.
C16_RefreshSuccess ==
    (/\ res.op = "RefreshTokenHandler"
     /\ res.body = [refresh_token |-> held]
     /\ ~res.signingFails
     /\ IssuedHere("refresh")
     /\ ValidConfig(tm)
     /\ tm.ExpirationTime >= TimePrecision
     /\ tm.RefreshDuration >= TimePrecision
     /\ now < HeldToken.claims.exp)
    => /\ res.out.response.status = 200
       /\ res.out.response.body.refresh_token = held
       /\ res.out.response.body.token_type = "Bearer"
       /\ res.out.response.body.expires_in = tm.ExpirationTime \div TimePrecision
       /\ LET access == ValidateAccessToken(tm, res.out.response.body.access_token,
                                            now)
          IN  access.err = Nil /\ access.claims.user_id = origin.userID

\* no token is in the body of a response
NoTokenIn(response) ==
    /\ "access_token" \notin DOMAIN response.body
    /\ "refresh_token" \notin DOMAIN response.body

\* C17: the refresh flow answers 200 only when ValidateRefreshToken and
\* GenerateAccessToken both succeeded; when the validation fails the answer
\* is 401 "invalid or expired refresh token" and GenerateAccessToken is not
\* called; when the generation fails the answer is 500 "failed to generate
\* access token"; no failure response carries a token.
C17_RefreshFailures ==
    res.op = "RefreshTokenHandler"
    => LET validated == IF res.body = MalformedBody
                        THEN [err |-> "no token"]
                        ELSE ValidateRefreshToken(tm, res.body.refresh_token, now)
       IN  /\ res.out.response.status = 200
              => (validated.err = Nil /\ ~res.signingFails)
           /\ (res.body # MalformedBody /\ validated.err # Nil)
              => /\ res.out.response =
                        [status |-> 401,
                         body |-> ErrorBody("unauthorized",
                                            "invalid or expired refresh token", 401)]
                 /\ ~res.out.generateCalled
           /\ (validated.err = Nil /\ res.signingFails)
              => res.out.response =
                     [status |-> 500,
                      body |-> ErrorBody("internal_error",
                                         "failed to generate access token", 500)]
           /\ res.out.response.status # 200 => NoTokenIn(res.out.response)

\* C17 witness: a refresh token the manager accepts is submitted, the signing
\* of the new access token fails, and the answer is 500 without a token.
C17_Witness ==
    /\ res.op = "RefreshTokenHandler"
    /\ res.body = [refresh_token |-> held]
    /\ ValidateRefreshToken(tm, held, now).err = Nil
    /\ res.signingFails
    /\ res.out.generateCalled
    /\ res.out.response.status = 500

\* C18: every panic of a handler under ErrorHandler is caught: the request
\* ends with 500, slug "internal_error", message "An unexpected error
\* occurred" and code 500, the panic does not pass the middleware, and the
\* process goes on serving requests.
C18_PanicRecovered ==
    /\ server = "running"
    /\ (res.op = "ErrorHandler" /\ res.downstream.panic)
       => /\ res.out.response =
                 [status |-> 500,
                  body |-> ErrorBody("internal_error",
                                     "An unexpected error occurred", 500)]
          /\ ~res.out.panic
          /\ res.out.err = NoError

\* C18 witness: the route of ExamplePanicHandler was requested and answered
\* 500 by a process that still runs.
C18_Witness ==
    /\ res.op = "ErrorHandler"
    /\ res.route = "GET /examples/panic"
    /\ res.downstream.panic
    /\ res.out.response.status = 500
    /\ server = "running"

\* the status and the slug of each response helper
HelperTable ==
    [ValidationErrorResponse |-> <<400, "validation_error">>,
     AuthErrorResponse |-> <<401, "unauthorized">>,
     NotFoundResponse |-> <<404, "not_found">>,
     InternalErrorResponse |-> <<500, "internal_error">>]

CodeIsStatus(response) == response.body.code = response.status

\* C19: the body of every error response written by the four helpers, by
\* ErrorHandler on its error path and its panic path, by a rejection of
\* AuthMiddleware and by a rejection of the refresh flow has code = the HTTP
\* status of the response; the helpers use 400/validation_error,
\* 401/unauthorized, 404/not_found, 500/internal_error and carry the caller's
\* message.
C19_CodeEqualsStatus ==
    /\ res.op \in Helpers
       => /\ CodeIsStatus(res.out)
          /\ <<res.out.status, res.out.body.error>> = HelperTable[res.op]
          /\ res.out.body.message = res.msg
    /\ (res.op = "ErrorHandler" /\ (res.downstream.panic \/ res.downstream.err # NoError))
       => CodeIsStatus(res.out.response)
    /\ (res.op = "Protected" /\ ~res.out.auth.next)
       => (CodeIsStatus(res.out.auth.response) /\ CodeIsStatus(res.out.end.response))
    /\ (res.op = "RefreshTokenHandler" /\ res.out.response.status # 200)
       => CodeIsStatus(res.out.response)

\* C19 witness: ErrorHandler answers an error whose status no case of
\* statusMessage names.
C19_Witness ==
    /\ res.op = "ErrorHandler"
    /\ res.downstream.err # NoError
    /\ res.out.response.status = 405
    /\ res.out.response.body = ErrorBody("error", "Method Not Allowed", 405)

\* the special characters the documentation lists
ListedSpecialChars ==
    {"!", "@", "#", "$", "%", "^", "&", "*", "(", ")", "_", "+", "=", "[",
     "]", "{", "}", "\"", ";", ":", "<", ">", "?", "/", "\\", "|", "-"}

\* an uppercase letter, a lowercase letter, a digit and a listed special
\* character
StrongAsListed(password) ==
    /\ \E i \in DOMAIN password : password[i] \in UpperChars
    /\ \E i \in DOMAIN password : password[i] \in LowerChars
    /\ \E i \in DOMAIN password : password[i] \in DigitChars
    /\ \E i \in DOMAIN password : password[i] \in ListedSpecialChars

\* the fields of a request other than the password pass their validation
OtherwiseWellFormed(req) ==
    req.Email = "user@example.com" /\ req.FullName # "" /\ req.Username # ""

\* C20: ValidatePasswordStrength(p).IsValid is true exactly when p has an
\* uppercase letter, a lowercase letter, a digit and one of the listed special
\* characters; ValidateSignupRequest reports a Password error for every
\* otherwise well-formed request whose password is not valid; and no row of
\* the users table holds the hash of a password that is not valid.
C20_PasswordStrength ==
    /\ res.op = "ValidatePasswordStrength"
       => (res.out.IsValid <=> StrongAsListed(held.Password))
    /\ (/\ res.op = "ValidateSignupRequest"
        /\ OtherwiseWellFormed(held)
        /\ ~StrongAsListed(held.Password))
       => \E i \in DOMAIN res.out : res.out[i].Field = "Password"
    /\ \A row \in db : StrongAsListed(row.Password.argon2)

\* the order of the steps of a request through AuthMiddleware
StepEdges ==
    {<<"Start", "ExtractHeader">>, <<"ExtractHeader", "ParseBearer">>,
     <<"ParseBearer", "ValidateToken">>, <<"ValidateToken", "AttachIdentity">>,
     <<"AttachIdentity", "Proceed">>,
     <<"Start", "Reject">>, <<"ExtractHeader", "Reject">>,
     <<"ParseBearer", "Reject">>}

\* the reason of the first step that fails for a header, at the time the
\* clock was read
FirstFailure(config, authHeader, at) ==
    IF authHeader = EmptyString THEN "missing authorization header"
    ELSE IF extractBearerToken(authHeader).err # Nil
    THEN "invalid authorization header format"
    ELSE IF at # <<>> /\ ValidateAccessToken(
                             config, extractBearerToken(authHeader).token,
                             at[1]).err # Nil
    THEN "invalid or expired access token"
    ELSE "none"

\* what holds of a request through AuthMiddleware in each of its states
MiddlewareRequestOK(config, req) ==
    /\ req.handlerRuns \in {0, 1}
    /\ req.issued = 0
    /\ req.handlerRuns = 1 <=> req.pc = "Proceed"
    /\ req.pc \in {"Start", "ExtractHeader", "ParseBearer", "ValidateToken", "Reject"}
       => req.locals = NoLocals
    /\ req.pc = "Reject"
       => /\ req.response.status = 401
          /\ req.response.body.message = FirstFailure(config, req.input, req.at)
          /\ NoTokenIn(req.response)
    /\ req.pc \in {"AttachIdentity", "Proceed"}
       => LET validated == ValidateAccessToken(
                               config, extractBearerToken(req.input).token,
                               req.at[1])
          IN  /\ FirstFailure(config, req.input, req.at) = "none"
              /\ validated.err = Nil
              /\ req.locals = [user_id |-> validated.claims.user_id]
    /\ req.pc = "Proceed" => req.response.status # 401

\* C21: a request through AuthMiddleware moves along Start, ExtractHeader,
\* ParseBearer, ValidateToken, AttachIdentity, Proceed or leaves to Reject,
\* and ends in one of Reject with 401 or Proceed; the reason of a rejection
\* is that of the first step that fails; the downstream handler runs at most
\* once, and only after ValidateAccessToken succeeded and the identity was
\* stored; a rejected request has nothing stored under user_id and no token
\* was issued for it; no step changes the header it carries, the token the
\* client holds or the config of the manager.
C21_RequestStateMachine ==
    /\ [](\A r \in RequestIDs :
              res[r].kind = "protected" => MiddlewareRequestOK(tm, res[r]))
    /\ [][\A r \in RequestIDs :
              (/\ res[r].kind = "protected"
               /\ res'[r].kind = "protected"
               /\ res'[r] # res[r])
              => /\ <<res[r].pc, res'[r].pc>> \in StepEdges
                 /\ res'[r].input = res[r].input
                 /\ res'[r].handlerRuns >= res[r].handlerRuns
                 /\ held' = held
                 /\ tm' = tm]_vars

\* C21 witness: a request that carries the refresh token of u1 as its bearer
\* token got as far as ValidateToken and was rejected there, after the clock
\* had moved, with nothing stored.
C21_Witness ==
    \E r \in RequestIDs :
        /\ res[r].kind = "protected"
        /\ res[r].pc = "Reject"
        /\ res[r].token = GenerateRefreshToken(StepConfig, "u1", 0, FALSE).tokenString
        /\ res[r].at = <<1>>
        /\ res[r].response.body.message = "invalid or expired access token"
        /\ res[r].locals = NoLocals

\* a string is a token GenerateAccessToken of this manager issues
IsAccessToken(config, tokenStr) ==
    /\ Len(tokenStr) = 1
    /\ IsJWT(tokenStr[1])
    /\ ClaimsOf(tokenStr).aud = <<config.Issuer \o S("-users")>>

\* C22: the refresh flow answers 401, calls no generator and returns no token
\* when the submitted string is an access token; a client that was given an
\* access token and nothing else holds, after any sequence of refresh
\* requests, no refresh token and no token that expires later than the one
\* it was given.
C22_NoReplayAsRefresh ==
    /\ (/\ res.op = "RefreshTokenHandler"
        /\ IsAccessToken(tm, res.body.refresh_token))
       => /\ res.out.response.status = 401
          /\ ~res.out.generateCalled
          /\ NoTokenIn(res.out.response)
    /\ origin.kind = "access"
       => /\ held.RefreshToken = EmptyString
          /\ ClaimsOf(held.AccessToken).exp
                 <= NewNumericDate(origin.t0 + tm.ExpirationTime)
          /\ \A v \in seen : v.op = "ValidateRefreshToken" => ~v.ok

\* C22 witness: a client that holds only an access token, which the manager
\* in use accepts as an access token, has submitted it to the refresh route
\* and got 401.
C22_Witness ==
    /\ origin.kind = "access"
    /\ res.op = "RefreshTokenHandler"
    /\ res.body.refresh_token = held.AccessToken
    /\ ValidateAccessToken(tm, held.AccessToken, now).err = Nil
    /\ res.out.response.status = 401

\* the clock time a request read first, when it read one
FirstRead(req) == IF req.at = <<>> THEN 0 ELSE req.at[1]

\* the outcome a finished request has when it runs alone and reads the clock
\* at the times it did read it
AloneOutcome(config, req) ==
    CASE req.kind = "protected" ->
             LET alone == Protected(config, req.input, FirstRead(req))
             IN  /\ req.pc = "Proceed" <=> alone.handlerRan
                 /\ req.locals = alone.auth.locals
                 /\ req.response = alone.end.response
      [] req.kind = "refresh" ->
             IF Len(req.at) < 2
             THEN LET alone == RefreshTokenHandler(config, req.input,
                                                   FirstRead(req), FALSE)
                  IN  /\ req.response = alone.response
                      /\ alone.response.status # 200
             ELSE LET validated == ValidateRefreshToken(
                                       config, req.input.refresh_token, req.at[1])
                  IN  /\ validated.err = Nil
                      /\ req.response.status = 200
                      /\ req.response.body.refresh_token = req.input.refresh_token
                      /\ req.response.body.access_token =
                             GenerateAccessToken(config, validated.claims.user_id,
                                                 req.at[2], FALSE).tokenString
                      /\ req.at[1] = req.at[2]
                         => req.response =
                                RefreshTokenHandler(config, req.input, req.at[1],
                                                    FALSE).response
      [] req.kind = "generate" ->
             req.response = GenerateAccessToken(config, req.input, req.at[1], FALSE)
      [] req.kind = "validate" ->
             req.response = ValidateAccessToken(config, req.input, req.at[1])

\* C23: no step of a request writes the config of the manager, and with
\* requests interleaved in any way on one manager each finished request has
\* the outcome it has when it runs alone and reads the clock at the same
\* times; the handler of a request reads the identity its own token carries.
C23_RequestsIndependent ==
    /\ [](\A r \in RequestIDs :
              res[r].pc \in Finished
              => /\ AloneOutcome(tm, res[r])
                 /\ res[r].pc = "Proceed"
                    => res[r].response.body.user_id = ClaimsOf(res[r].token).user_id)
    /\ [][tm' = tm]_vars

\* C23 witness: two requests to the protected route, with the tokens of two
\* users, read the clock at different times and both reach the handler, each
\* with its own identity, while both are still in flight.
C23_Witness ==
    /\ res[1].kind = "protected" /\ res[1].pc = "Proceed"
    /\ res[2].kind = "protected" /\ res[2].pc = "Proceed"
    /\ res[1].at # res[2].at
    /\ res[1].response.body.user_id = "u1"
    /\ res[2].response.body.user_id = "u2"

\* C24 as stated: once a validator has failed on a token string, every later
\* call of that validator with the same string on the same manager fails.
C24_FailurePermanent ==
    (res.op \in {"ValidateAccessToken", "ValidateRefreshToken"} /\ res.out.err = Nil)
    => \A v \in seen : (v.op = res.op /\ v.token = held) => v.ok

\* C24 (amended): once a validator has failed on a token string at a time
\* that is not before the not-before time the string carries (or on a string
\* that is no token), every later call of that validator with the same string
\* on the same manager fails.
C24_FailurePermanentFromNotBefore ==
    (res.op \in {"ValidateAccessToken", "ValidateRefreshToken"} /\ res.out.err = Nil)
    => \A v \in seen :
           (v.op = res.op /\ v.token = held /\ ~v.ok) => v.at < ClaimsOf(held).nbf

\* C24 witness: a token of the manager whose not-before time has come failed
\* a validator, and fails it again at a later time.
C24_Witness ==
    /\ res.op = "ValidateAccessToken"
    /\ res.out.err # Nil
    /\ HeldIsJWT
    /\ HeldToken.sig.key = tm.SecretKey
    /\ HeldToken.claims.aud = <<AccessAudience>>
    /\ \E v \in seen : /\ v.op = res.op /\ v.token = held /\ ~v.ok
                       /\ v.at >= HeldToken.claims.nbf
                       /\ v.at < now

\* the validator a recorded validation called
ValidatorOf(config, v, t) ==
    IF v.op = "ValidateAccessToken" THEN ValidateAccessToken(config, v.token, t)
    ELSE ValidateRefreshToken(config, v.token, t)

\* C25: a successful refresh answers with the refresh token that was
\* submitted and the client's refresh token stays the one of its pair; a
\* token a validator has accepted (a refresh token used in any number of
\* refreshes, an access token issued earlier) is accepted by it again at
\* every later time before the token's own expiry, whatever requests came in
\* between, and a request that is answered 401 although its token was
\* accepted before comes at or after that token's expiry.
C25_NoRotationNoRevocation ==
    /\ (res.op = "RefreshTokenHandler" /\ res.out.response.status = 200)
       => res.out.response.body.refresh_token = res.body.refresh_token
    /\ origin.kind = "pair"
       => held.RefreshToken =
              GenerateRefreshToken(tm, origin.userID, origin.t0, FALSE).tokenString
    /\ \A v \in seen :
           (v.ok /\ now < ClaimsOf(v.token).exp) => ValidatorOf(tm, v, now).err = Nil
    /\ (/\ res.op = "RefreshTokenHandler"
        /\ res.out.response.status = 401
        /\ [op |-> "ValidateRefreshToken", token |-> res.body.refresh_token,
            ok |-> TRUE] \in seen)
       => now >= ClaimsOf(res.body.refresh_token).exp
    /\ (/\ res.op = "Protected"
        /\ res.out.end.response.status = 401
        /\ [op |-> "ValidateAccessToken", token |-> held.AccessToken,
            ok |-> TRUE] \in seen)
       => now >= ClaimsOf(held.AccessToken).exp

\* C25 witness: a refresh with the refresh token of the pair has succeeded,
\* and at a later time the access token of the pair, issued before that
\* refresh, is accepted at the protected route while the refresh token is
\* still good for another refresh.
C25_Witness ==
    /\ origin.kind = "pair"
    /\ now > origin.t0
    /\ res.op = "Protected"
    /\ res.out.end.response.status = 200
    /\ held.AccessToken =
           GenerateAccessToken(tm, origin.userID, origin.t0, FALSE).tokenString
    /\ [op |-> "ValidateRefreshToken", token |-> held.RefreshToken, ok |-> TRUE]
           \in seen
    /\ RefreshTokenHandler(tm, [refresh_token |-> held.RefreshToken], now,
                           FALSE).response.status = 200

\* the slug of each status code
SlugTable(status) ==
    IF status = 400 THEN "bad_request"
    ELSE IF status = 401 THEN "unauthorized"
    ELSE IF status = 403 THEN "forbidden"
    ELSE IF status = 404 THEN "not_found"
    ELSE IF status = 500 THEN "internal_error"
    ELSE IF status = 503 THEN "service_unavailable"
    ELSE "error"

\* C26: when the chain under ErrorHandler returns an error, the response has
\* the status of the error's Code when it is a *fiber.Error and 500 when it
\* is not, the slug the table gives for that status ("error" for a status
\* the table does not name), the text of the error as message and the status
\* as code; when the chain returns nil, the response already written, such as
\* a 401 of AuthMiddleware, is left as it is.
C26_ErrorMapping ==
    /\ (res.op = "ErrorHandler" /\ ~res.downstream.panic)
       => IF res.downstream.err # NoError
          THEN LET status == IF res.downstream.err.fiber
                             THEN res.downstream.err.Code ELSE 500
               IN  res.out.response =
                       [status |-> status,
                        body |-> ErrorBody(SlugTable(status),
                                           res.downstream.err.Message, status)]
          ELSE res.out.response = res.downstream.response
    /\ res.op = "Protected"
       => /\ ~res.out.auth.next => res.out.end.response = res.out.auth.response
          /\ res.out.end.err = NoError

\* C26 witness: a handler returned a *fiber.Error with the status 503 and the
\* response carries service_unavailable.
C26_Witness ==
    /\ res.op = "ErrorHandler"
    /\ res.downstream.err # NoError
    /\ res.downstream.err.fiber
    /\ res.downstream.err.Code = 503
    /\ res.out.response =
           [status |-> 503, body |-> ErrorBody("service_unavailable", "refused", 503)]

\* the process has ended
Ended == main.pc \in {"Returned", "Exited", "Killed"}

\* main returned from the signal branch with one of its two log lines
ReturnedAfterShutdown ==
    /\ main.pc = "Returned"
    /\ main.exit = 0
    /\ "shutdown signal received" \in main.log
    /\ \/ "server stopped" \in main.log /\ main.done
       \/ "graceful shutdown timed out" \in main.log /\ main.timer = ShutdownTimeout

\* the process logged the listen error and exited with status 1
ExitedOnListenError ==
    /\ main.pc = "Exited"
    /\ main.exit = 1
    /\ "server listen error" \in main.log

\* the goroutine that runs app.Listen can always send its result
ListenNeverBlocks ==
    (Alive /\ main.listen = "Sending") => Len(main.srvErr) < SrvErrCapacity

\* C27 as stated, in its final results: a process that has ended after a
\* signal came first has returned from main through the shutdown branch, on
\* "server stopped" or on "graceful shutdown timed out"; a process that has
\* ended after app.Listen failed first has logged the error and exited with
\* status 1; the goroutine running Listen is never blocked on its send.
C27_ShutdownCompletes ==
    /\ (Ended /\ main.first = "signal") => ReturnedAfterShutdown
    /\ (Ended /\ main.first = "listen error") => ExitedOnListenError
    /\ ListenNeverBlocks

\* C27 amended: once a signal is in sigCh the process eventually ends; when
\* the outer select takes the signal main returns on "server stopped" or, at
\* the latest when the 10 seconds are over, on "graceful shutdown timed out",
\* also when app.Shutdown never returns; when the outer select takes the
\* result of a failed Listen the process logs the error and exits with status
\* 1; the select takes the signal when only the signal is pending, the error
\* when only the error is pending, and either when both are; the goroutine
\* running Listen is never blocked on its send.
C27_ShutdownCompletesOnceSelected ==
    /\ [](ListenNeverBlocks)
    /\ []((main.pc = "Returned" /\ "shutdown signal received" \in main.log)
            => ReturnedAfterShutdown)
    /\ [](main.pc = "Exited" => ExitedOnListenError)
    /\ [][(main.pc = "Select" /\ main'.pc # "Select" /\ main'.pc # "Killed")
            => /\ main.srvErr = << >> => main'.pc = "Wait"
               /\ main.sigCh = << >> => main'.pc = "Exited"
               /\ main'.pc \in {"Wait", "Exited"}]_vars
    /\ [][main.pc = "Wait" => main'.pc \in {"Wait", "Returned"}]_vars
    /\ ((Alive /\ main.sigCh # << >>) ~> Ended)
    /\ ((main.pc = "Wait") ~> ReturnedAfterShutdown)

\* C27 witness: main returned on "graceful shutdown timed out" while
\* app.Shutdown had not returned, and app.Listen's result was sent.
C27_Witness ==
    /\ main.pc = "Returned"
    /\ "graceful shutdown timed out" \in main.log
    /\ main.shutdown = "running"
    /\ main.timer = ShutdownTimeout
    /\ main.listen = "Done"

\* the end of the session of the pair the client was given at origin.t0
SessionEnd(config) == origin.t0 + config.RefreshDuration

\* C28: for a token pair issued at t0, a request to the refresh route with
\* the pair's refresh token that is answered 200 is made before t0 + the
\* refresh duration, and the access token of the pair and every access token
\* such a request returns expire before t0 + the refresh duration + the
\* access duration.
C28_SessionBounded ==
    origin.kind = "pair"
    => /\ ClaimsOf(held.AccessToken).exp < SessionEnd(tm) + tm.ExpirationTime
       /\ (res.op = "RefreshTokenHandler" /\ res.out.response.status = StatusOK)
          => /\ res.body.refresh_token = held.RefreshToken
             /\ now < SessionEnd(tm)
             /\ ClaimsOf(res.out.response.body.access_token).exp
                    < SessionEnd(tm) + tm.ExpirationTime

\* C28 under the TokenConfig invariant that NewTokenManager does not enforce
C28_SessionBoundedOfValidConfig == ValidConfig(tm) => C28_SessionBounded

\* a refresh at a later time than t0 was answered 200 under a valid config
C28_RefreshedLater ==
    /\ ValidConfig(tm)
    /\ origin.kind = "pair"
    /\ now > origin.t0
    /\ res.op = "RefreshTokenHandler"
    /\ res.out.response.status = StatusOK

\* C29: when FindUser returns no user and no error, LoginUser returns an
\* error and no response without panicking, and the signin handler answers
\* the request with the status 400.
C29_NoUserFound ==
    (res.op = "SigninHandler" /\ res.found = [user |-> NoUser, err |-> Nil])
    => /\ ~res.login.panic
       /\ res.login.err # Nil
       /\ res.login.response = NoUser
       /\ ~res.handler.panic
       /\ res.handler.response.status = 400
       /\ res.out.response.status = 400

\* the panic of LoginUser on a user that was not found, as the client sees
\* it: the deferred recover of ErrorHandler answers 500
C29_AnsweredInternalError ==
    (res.op = "SigninHandler" /\ res.found = [user |-> NoUser, err |-> Nil])
    => /\ res.login.panic
       /\ res.out.response = InternalErrorResponse("An unexpected error occurred")

\* both tokens of a response name the user with the ID id
TokensOf(response, id) ==
    /\ ClaimsOf(response.AccessToken).user_id = id
    /\ ClaimsOf(response.RefreshToken).user_id = id

\* C30: LoginUser reaches GenerateTokenPair only when the users table has an
\* active user with the email of the request whose stored hash is the hash
\* of the submitted password, RegisterUser only when SaveUser has stored the
\* user; the tokens returned name that stored user; a call that fails
\* returns no token, and one that fails before the credential step is done
\* has generated none.
C30_TokensAfterCredentials ==
    /\ res.op = "SigninHandler"
       => /\ res.login.generated # NotCalled
             => \E row \in db :
                    /\ row.IsActive
                    /\ row.Email = res.req.Email
                    /\ row.Password = [argon2 |-> res.req.Password, salt |-> "salt"]
                    /\ res.found.user = row
                    /\ res.login.response # NoUser
                       => /\ res.login.response.User = row
                          /\ TokensOf(res.login.response, row.ID)
          /\ (res.login.err # Nil \/ res.login.panic)
             => /\ res.login.response = NoUser
                /\ res.out.response.status # StatusOK
          /\ (res.login.err = Nil /\ ~res.login.panic)
             => /\ res.login.generated # NotCalled
                /\ res.out.response.status = StatusOK
                /\ res.out.response.body.access_token = res.login.response.AccessToken
                /\ res.out.response.body.refresh_token = res.login.response.RefreshToken
    /\ res.op = "RegisterUser"
       => /\ res.out.err = Nil
             => \E row \in db \ res.rows :
                    /\ db = res.rows \cup {row}
                    /\ row.Email = res.req.Email
                    /\ row.IsActive
                    /\ res.out.response.User = row
                    /\ TokensOf(res.out.response, row.ID)
          /\ res.out.err # Nil => res.out.response = NoUser
          /\ res.out.err \notin {Nil, "failed to generate tokens"} => db = res.rows
          /\ res.out.err = "failed to generate tokens"
             => /\ ~res.dbFails
                /\ \E row \in db \ res.rows : row.Email = res.req.Email

\* C30 witness: a signin with the password of a registered user was answered
\* with tokens of that user, after a signin with another password was not.
C30_Witness ==
    /\ res.op = "SigninHandler"
    /\ res.login.err = Nil
    /\ res.out.response.status = StatusOK
    /\ \E row \in db :
           /\ row.Email = res.req.Email
           /\ TokensOf(res.login.response, row.ID)
           /\ \E other \in StrongPasswords :
                  /\ other # res.req.Password
                  /\ LoginUser(tm, db, [res.req EXCEPT !.Password = other],
                               FALSE, "none", now).generated = NotCalled

====
